---- MODULE Spec2Model ----
(***************************************************************************)
(* Model of s3-simple's streaming upload, Bucket::put_stream_with          *)
(* (src/src/bucket.rs:305-473): the caller task that reads the source      *)
(* stream, the spawned writer task that talks to the server, and the       *)
(* bounded flume channel between them.  Every request that send_request    *)
(* issues is appended to the log `requests`; the outcome of a request is   *)
(* chosen nondeterministically when the awaiting task resumes.             *)
(***************************************************************************)
EXTENDS Integers, Sequences, FiniteSets, TLC

\* ------------------------------------------------------------------ bounds
\* CHUNK_SIZE is 8 MiB in the source (bucket.rs:28); the model scales it
\* down, all comparisons against it are kept as in the code.
CHUNK_SIZE == 4
\* the longest source stream is MaxChunks * CHUNK_SIZE + 1 bytes
MaxChunks == 3
\* number of distinct ETag values / upload ids the server may hand out
NumETags == 2
NumUploadIds == 2

\* strings are sequences of at most MaxStrLen characters out of 1..NumChars
NumChars == 2
MaxStrLen == 2
\* the server holds at most MaxKeys keys and serves at most MaxPage per page
MaxKeys == 4
MaxPage == 2

\* byte offsets given to get_range are in 0..MaxOffset
MaxOffset == 2
\* request bodies have at most MaxBody bytes
MaxBody == 2
\* NumTasks operations run concurrently, each sending 1..MaxSends requests
NumTasks == 2
MaxSends == 2
\* a query has at most MaxPairs pairs, whose keys and values have at most
\* QMaxLen bytes
MaxPairs == 2
QMaxLen == 1

\* ------------------------------------------------------- program constants
\* flume::bounded(2)
ChanCap == 2

MaxLen == MaxChunks * CHUNK_SIZE + 1
ETags == 1..NumETags
UploadIds == 1..NumUploadIds

Min(a, b) == IF a < b THEN a ELSE b

\* ------------------------------------------------------------------ state
VARIABLES
    stream,       \* the bytes of the source reader (byte i of the source is i)
    pos,          \* number of bytes consumed from the reader so far
    readErr,      \* 0, or the number of the read (1 = first) that returned Err
    reads,        \* number of reads performed on the source
    rpc,          \* position of the caller task (put_stream_with itself)
    buf,          \* the caller's `buf` / pending channel message
    first_chunk,  \* the `first_chunk` vector
    chan,         \* messages queued in the flume channel
    txAlive,      \* the Sender `tx` has not been dropped
    rxAlive,      \* the Receiver `rx` has not been dropped
    wpc,          \* position of the spawned writer task
    upload_id,    \* msg.upload_id (0 before the initiate response)
    part_number,  \* writer's `part_number`
    etags,        \* writer's `etags`
    total_size,   \* writer's `total_size`
    chunk,        \* the chunk the writer is uploading
    perr,         \* the `err` bound in the part failure branch
    wres,         \* the value the writer task returned
    requests,     \* log of requests issued through send_request
    result        \* the value put_stream_with returned

\* state of Bucket::list / Bucket::list_page (bucket.rs:475-530)
VARIABLES
    l_op,         \* the operation called: "list" or "list_page"
    l_v2,         \* self.list_objects_v2
    l_listing,    \* the keys the server holds, in listing order
    l_page,       \* the number of keys the server puts on one page
    l_srvNext,    \* the server names a next token on every truncated page
    l_in,         \* the continuation_token / start_after arguments of list_page
    l_pc,         \* position of the call
    l_token,      \* list's `continuation_token`
    l_results,    \* list's `results`
    l_requests,   \* the list requests issued, in order
    l_responses,  \* the pages the server answered with, in order
    l_result      \* the value the call returned

\* state of one call that goes through Bucket::send_request
\* (bucket.rs:632-665), get_range included (bucket.rs:138-151)
VARIABLES
    s_op,         \* "send_request" or "get_range"
    s_cmd,        \* the Command, or the arguments of get_range
    s_pc,         \* position of the call
    s_req,        \* the request handed to the HTTP client
    s_sent,       \* number of requests handed to the HTTP client
    s_resp,       \* the response received
    s_result      \* the value the call returned

\* state of the process-wide HTTP client (bucket.rs:26, 667-680) and of the
\* tasks that use it
VARIABLES
    c_pc,         \* position of each task
    c_client,     \* CLIENT: 0 while uninitialized, else the instance it holds
    c_init,       \* the task running the initializer of CLIENT, 0 if none
    c_built,      \* number of reqwest::Client instances built so far
    c_ref,        \* the instance get_client returned to each task
    c_used        \* for every request sent, the task and the instance used

\* two values rendered with {:?} (credentials.rs:22-47, bucket.rs:48-56)
VARIABLES
    d_in,         \* the two Bucket values
    d_pc,         \* position
    d_out         \* their renderings

\* canonical_query_string applied to two orderings of the same query pairs
\* (signature.rs:80-97)
VARIABLES
    q_in,         \* the two sequences of query pairs
    q_pc,         \* position
    q_out         \* the canonical query strings

\* signature::signing_key and the HMAC that signs the string to sign
\* (signature.rs:149-171, bucket.rs:812-820), with the SHA-256 and HMAC
\* computations they run
VARIABLES
    k_in,         \* the inputs: secret, date, region, string to sign
    k_pc,         \* the HMAC of the chain that is being computed
    k_hmac,       \* the HMAC in progress: its key, its message, its phase
    k_sha,        \* the SHA-256 in progress
    k_out         \* the signing key and the signature, once computed

putVars == <<stream, pos, readErr, reads, rpc, buf, first_chunk, chan, txAlive,
             rxAlive, wpc, upload_id, part_number, etags, total_size, chunk,
             perr, wres, requests, result>>

listVars == <<l_op, l_v2, l_listing, l_page, l_srvNext, l_in, l_pc, l_token,
              l_results, l_requests, l_responses, l_result>>

sendVars == <<s_op, s_cmd, s_pc, s_req, s_sent, s_resp, s_result>>

clientVars == <<c_pc, c_client, c_init, c_built, c_ref, c_used>>

debugVars == <<d_in, d_pc, d_out>>

queryVars == <<q_in, q_pc, q_out>>

signVars == <<k_in, k_pc, k_hmac, k_sha, k_out>>

\* the variables the streaming upload does not touch
otherVars == <<listVars, sendVars, clientVars, debugVars, queryVars, signVars>>

\* the variables each of the other operations does not touch
outsideList == <<putVars, sendVars, clientVars, debugVars, queryVars,
                  signVars>>
outsideSend == <<putVars, listVars, clientVars, debugVars, queryVars,
                  signVars>>
outsideClient == <<putVars, listVars, sendVars, debugVars, queryVars,
                  signVars>>
outsideDebug == <<putVars, listVars, sendVars, clientVars, queryVars,
                  signVars>>
outsideQuery == <<putVars, listVars, sendVars, clientVars, debugVars,
                  signVars>>
outsideSign == <<putVars, listVars, sendVars, clientVars, debugVars,
                 queryVars>>

vars == <<putVars, otherVars>>

readerVars == <<stream, pos, readErr, reads, rpc, buf, result, txAlive>>
writerVars == <<wpc, upload_id, part_number, etags, total_size, chunk, perr,
                wres, rxAlive>>

\* ------------------------------------------------------------- data types
\* Option<Vec<u8>> travelling through the channel
Some(data) == [some |-> TRUE, data |-> data]
None == [some |-> FALSE, data |-> <<>>]
\* no buffer held
NoBuf == None

NoErr == [kind |-> "none", req |-> 0]
\* an S3Error, tagged with the index of the request that produced it
Error(kind, req) == [kind |-> kind, req |-> req]
Pending == [ok |-> FALSE, status_code |-> 0, uploaded_bytes |-> 0, err |-> NoErr]
Ok(size) == [ok |-> TRUE, status_code |-> 200, uploaded_bytes |-> size, err |-> NoErr]
Err(e) == [ok |-> FALSE, status_code |-> 0, uploaded_bytes |-> 0, err |-> e]

Request(cmd, uid, part, body, manifest) ==
    [cmd |-> cmd, uid |-> uid, part |-> part, body |-> body,
     manifest |-> manifest, st |-> "pending", etag |-> 0]

\* the request the log ends with is answered with status st
Answer(log, st, etag) ==
    [log EXCEPT ![Len(log)].st = st, ![Len(log)].etag = etag]

\* ---------------------------------------------------------- pure helpers
\* reader.take(CHUNK_SIZE).read_to_end(&mut buf): the next bytes of the
\* source, at most CHUNK_SIZE of them
NextChunk(s, p) == SubSeq(s, p + 1, Min(p + CHUNK_SIZE, Len(s)))

\* mutant: the threshold test written with <=
IsSinglePut_Lte(size) == size <= CHUNK_SIZE

\* `if first_chunk_size < CHUNK_SIZE { normal PUT }`
IsSinglePut(size) == size < CHUNK_SIZE

\* `part_number += 1`
NextPartNumber(n) == n + 1

\* mutant: the manifest numbered from the enumerate index, without the + 1
Manifest_ZeroBased(es) ==
    [i \in 1..Len(es) |-> [part_number |-> i - 1, etag |-> es[i]]]

\* etags.into_iter().enumerate().map(|(i, etag)| Part { etag, part_number: i + 1 })
Manifest(es) == [i \in 1..Len(es) |-> [part_number |-> i, etag |-> es[i]]]

\* mutant: the channel hands out the newest message first
RecvIndex_Last(q) == Len(q)

\* the message rx.recv_async() yields from a non-empty queue
RecvIndex(q) == 1

\* no list call is running
ListIdle ==
    /\ l_op = "none"
    /\ l_v2 = TRUE
    /\ l_listing = <<>>
    /\ l_page = 1
    /\ l_srvNext = TRUE
    /\ l_in = [continuation_token |-> None, start_after |-> None]
    /\ l_pc = "idle"
    /\ l_token = None
    /\ l_results = <<>>
    /\ l_requests = <<>>
    /\ l_responses = <<>>
    /\ l_result = [ok |-> FALSE, pages |-> <<>>, err |-> NoErr]

\* no single request is being made
SendIdle ==
    /\ s_op = "none"
    /\ s_cmd = <<>>
    /\ s_pc = "idle"
    /\ s_req = <<>>
    /\ s_sent = 0
    /\ s_resp = <<>>
    /\ s_result = <<>>

\* no task uses the HTTP client
ClientIdle ==
    /\ c_pc = <<>>
    /\ c_client = 0
    /\ c_init = 0
    /\ c_built = 0
    /\ c_ref = <<>>
    /\ c_used = <<>>

\* nothing is rendered
DebugIdle ==
    /\ d_in = <<>>
    /\ d_pc = "idle"
    /\ d_out = <<>>

\* no query is canonicalized
QueryIdle ==
    /\ q_in = <<>>
    /\ q_pc = "idle"
    /\ q_out = <<>>

\* nothing is signed
SignIdle ==
    /\ k_in = <<>>
    /\ k_pc = "idle"
    /\ k_hmac = <<>>
    /\ k_sha = <<>>
    /\ k_out = <<>>

OtherIdle ==
    /\ ListIdle
    /\ SendIdle
    /\ ClientIdle
    /\ DebugIdle
    /\ QueryIdle
    /\ SignIdle

\* ------------------------------------------------------------------- Init
Init ==
    /\ OtherIdle
    /\ \E len \in 0..MaxLen : stream = [i \in 1..len |-> i]
    /\ pos = 0
    /\ readErr = 0
    /\ reads = 0
    /\ rpc = "first_read"
    /\ buf = NoBuf
    /\ first_chunk = <<>>
    /\ chan = <<>>
    /\ txAlive = FALSE
    /\ rxAlive = FALSE
    /\ wpc = "notspawned"
    /\ upload_id = 0
    /\ part_number = 0
    /\ etags = <<>>
    /\ total_size = 0
    /\ chunk = NoBuf
    /\ perr = NoErr
    /\ wres = Pending
    /\ requests = <<>>
    /\ result = Pending

\* ------------------------------------------------------------ caller task
\* bucket.rs:318-322, the first read fails: `.await?` returns the io error
FirstReadErr ==
    /\ rpc = "first_read"
    /\ reads' = reads + 1
    /\ readErr' = reads + 1
    /\ result' = Err(Error("Io", 0))
    /\ rpc' = "returned"
    /\ UNCHANGED <<stream, pos, buf, first_chunk, chan, txAlive, requests>>
    /\ UNCHANGED writerVars
    /\ UNCHANGED otherVars

\* bucket.rs:318-329, first read of fewer than CHUNK_SIZE bytes: plain put_with
FirstReadSmall ==
    /\ rpc = "first_read"
    /\ LET c == NextChunk(stream, pos) IN
        /\ IsSinglePut(Len(c))
        /\ reads' = reads + 1
        /\ pos' = pos + Len(c)
        /\ first_chunk' = c
        /\ requests' = Append(requests, Request("PutObject", 0, 0, c, <<>>))
        /\ rpc' = "put_wait"
    /\ UNCHANGED <<stream, readErr, buf, chan, txAlive, result>>
    /\ UNCHANGED writerVars
    /\ UNCHANGED otherVars

\* bucket.rs:331-337, the response of the plain put
PutResp ==
    /\ rpc = "put_wait"
    /\ \/ /\ requests' = Answer(requests, "ok", 0)
          /\ result' = Ok(Len(first_chunk))
       \/ /\ requests' = Answer(requests, "fail", 0)
          /\ result' = Err(Error("HttpFailWithBody", Len(requests)))
    /\ rpc' = "returned"
    /\ UNCHANGED <<stream, pos, readErr, reads, buf, first_chunk, chan, txAlive>>
    /\ UNCHANGED writerVars
    /\ UNCHANGED otherVars

\* bucket.rs:318-353, first read of CHUNK_SIZE bytes: create the channel and
\* spawn the writer task
FirstReadLarge ==
    /\ rpc = "first_read"
    /\ LET c == NextChunk(stream, pos) IN
        /\ ~IsSinglePut(Len(c))
        /\ reads' = reads + 1
        /\ pos' = pos + Len(c)
        /\ first_chunk' = c
    /\ txAlive' = TRUE
    /\ rxAlive' = TRUE
    /\ wpc' = "start"
    /\ rpc' = "alloc"
    /\ UNCHANGED <<stream, readErr, buf, chan, requests, result>>
    /\ UNCHANGED <<upload_id, part_number, etags, total_size, chunk, perr, wres>>
    /\ UNCHANGED otherVars

\* bucket.rs:445, `let mut buf = Vec::with_capacity(CHUNK_SIZE)`
ReaderAlloc ==
    /\ rpc = "alloc"
    /\ buf' = Some(<<>>)
    /\ rpc' = "read"
    /\ UNCHANGED <<stream, pos, readErr, reads, first_chunk, chan, txAlive,
                   requests, result>>
    /\ UNCHANGED writerVars
    /\ UNCHANGED otherVars

\* mutant: a read of zero bytes is sent on as a chunk like any other
ReaderReadOk_EmptyChunk ==
    /\ rpc = "read"
    /\ LET c == NextChunk(stream, pos) IN
        /\ reads' = reads + 1
        /\ pos' = pos + Len(c)
        /\ buf' = Some(c)
        /\ rpc' = "send"
    /\ UNCHANGED <<stream, readErr, first_chunk, chan, txAlive, requests, result>>
    /\ UNCHANGED writerVars
    /\ UNCHANGED otherVars

\* bucket.rs:446-449,456: the read returned Ok(size)
ReaderReadOk ==
    /\ rpc = "read"
    /\ LET c == NextChunk(stream, pos) IN
        /\ reads' = reads + 1
        /\ pos' = pos + Len(c)
        /\ buf' = IF Len(c) = 0 THEN None ELSE Some(c)
        /\ rpc' = "send"
    /\ UNCHANGED <<stream, readErr, first_chunk, chan, txAlive, requests, result>>
    /\ UNCHANGED writerVars
    /\ UNCHANGED otherVars

\* bucket.rs:465-468: the read returned Err, the loop is left
ReaderReadErr ==
    /\ rpc = "read"
    /\ reads' = reads + 1
    /\ readErr' = reads + 1
    /\ buf' = NoBuf
    /\ rpc' = "join"
    /\ UNCHANGED <<stream, pos, first_chunk, chan, txAlive, requests, result>>
    /\ UNCHANGED writerVars
    /\ UNCHANGED otherVars

\* mutant: a failed send is ignored and the loop goes on reading
ReaderSend_KeepsReading ==
    /\ rpc = "send"
    /\ \/ /\ ~rxAlive
          /\ chan' = chan
          /\ rpc' = IF buf.some THEN "alloc" ELSE "join"
       \/ /\ rxAlive
          /\ Len(chan) < ChanCap
          /\ chan' = Append(chan, buf)
          /\ rpc' = IF buf.some THEN "alloc" ELSE "join"
    /\ buf' = NoBuf
    /\ UNCHANGED <<stream, pos, readErr, reads, first_chunk, txAlive,
                   requests, result>>
    /\ UNCHANGED writerVars
    /\ UNCHANGED otherVars

\* bucket.rs:450-463: tx.send_async(..) completes; it fails when the
\* receiver is gone and waits while the channel is full
ReaderSend ==
    /\ rpc = "send"
    /\ \/ /\ ~rxAlive
          /\ chan' = chan
          /\ rpc' = "join"
       \/ /\ rxAlive
          /\ Len(chan) < ChanCap
          /\ chan' = Append(chan, buf)
          /\ rpc' = IF buf.some THEN "alloc" ELSE "join"
    /\ buf' = NoBuf
    /\ UNCHANGED <<stream, pos, readErr, reads, first_chunk, txAlive,
                   requests, result>>
    /\ UNCHANGED writerVars
    /\ UNCHANGED otherVars

\* bucket.rs:472, `handle_writer.await?`; returning drops tx and the channel
ReaderJoin ==
    /\ rpc = "join"
    /\ wpc = "done"
    /\ result' = wres
    /\ rpc' = "returned"
    /\ txAlive' = FALSE
    /\ chan' = <<>>
    /\ UNCHANGED <<stream, pos, readErr, reads, buf, first_chunk, requests>>
    /\ UNCHANGED writerVars
    /\ UNCHANGED otherVars

\* the caller drops the future of put_stream_with at one of its await
\* points; `tx` and `buf` are dropped with it, the spawned writer task is
\* detached and keeps running
CallerCancel ==
    /\ rpc \in {"first_read", "put_wait", "read", "send", "join"}
    /\ rpc' = "cancelled"
    /\ buf' = NoBuf
    /\ txAlive' = FALSE
    /\ chan' = IF rxAlive THEN chan ELSE <<>>
    /\ UNCHANGED <<stream, pos, readErr, reads, first_chunk, requests, result>>
    /\ UNCHANGED writerVars
    /\ UNCHANGED otherVars

\* ------------------------------------------------------------ writer task
\* mutant: the receiver outlives the writer task
WriterReturn_KeepsRx(v) ==
    /\ wres' = v
    /\ wpc' = "done"
    /\ rxAlive' = rxAlive
    /\ chunk' = NoBuf
    /\ chan' = chan

\* what dropping the task's state does once the task has returned v
WriterReturn(v) ==
    /\ wres' = v
    /\ wpc' = "done"
    /\ rxAlive' = FALSE
    /\ chunk' = NoBuf
    /\ chan' = IF txAlive THEN chan ELSE <<>>

\* bucket.rs:356 / 236-248: send InitiateMultipartUpload
WriterInitiate ==
    /\ wpc = "start"
    /\ requests' = Append(requests,
                          Request("InitiateMultipartUpload", 0, 0, <<>>, <<>>))
    /\ wpc' = "initiate_wait"
    /\ UNCHANGED <<upload_id, part_number, etags, total_size, chunk, perr,
                   wres, rxAlive, first_chunk, chan>>
    /\ UNCHANGED readerVars
    /\ UNCHANGED otherVars

\* mutant: a failed initiate is ignored, the loop starts with no upload id
WriterInitiateResp_Ignore ==
    /\ wpc = "initiate_wait"
    /\ \/ \E uid \in UploadIds :
            /\ requests' = Answer(requests, "ok", 0)
            /\ upload_id' = uid
       \/ /\ requests' = Answer(requests, "fail", 0)
          /\ upload_id' = 0
       \/ /\ requests' = Answer(requests, "badxml", 0)
          /\ upload_id' = 0
    /\ part_number' = 0
    /\ etags' = <<>>
    /\ total_size' = 0
    /\ wpc' = "loop"
    /\ UNCHANGED <<chunk, wres, rxAlive, first_chunk, chan>>
    /\ UNCHANGED perr
    /\ UNCHANGED readerVars
    /\ UNCHANGED otherVars

\* bucket.rs:356-364 / 248-249: the initiate response; a failed request or an
\* undecodable body ends the task through `?`
WriterInitiateResp ==
    /\ wpc = "initiate_wait"
    /\ \/ \E uid \in UploadIds :
            /\ requests' = Answer(requests, "ok", 0)
            /\ upload_id' = uid
            /\ part_number' = 0
            /\ etags' = <<>>
            /\ total_size' = 0
            /\ wpc' = "loop"
            /\ UNCHANGED <<chunk, wres, rxAlive, first_chunk, chan>>
       \/ /\ requests' = Answer(requests, "fail", 0)
          /\ WriterReturn(Err(Error("HttpFailWithBody", Len(requests))))
          /\ first_chunk' = <<>>
          /\ UNCHANGED <<upload_id, part_number, etags, total_size>>
       \/ /\ requests' = Answer(requests, "badxml", 0)
          /\ WriterReturn(Err(Error("Xml", Len(requests))))
          /\ first_chunk' = <<>>
          /\ UNCHANGED <<upload_id, part_number, etags, total_size>>
    /\ UNCHANGED perr
    /\ UNCHANGED readerVars
    /\ UNCHANGED otherVars

\* mutant: total_size is overwritten instead of accumulated
UploadChunk_NoAccumulate(c) ==
    /\ chunk' = Some(c)
    /\ total_size' = Len(c)
    /\ part_number' = part_number + 1
    /\ requests' = Append(requests,
                          Request("UploadPart", upload_id, part_number + 1,
                                  c, <<>>))
    /\ wpc' = "part_wait"

\* bucket.rs:384-392: account for the chunk c and send it as the next part
UploadChunk(c) ==
    /\ chunk' = Some(c)
    /\ total_size' = total_size + Len(c)
    /\ part_number' = NextPartNumber(part_number)
    /\ requests' = Append(requests,
                          Request("UploadPart", upload_id,
                                  NextPartNumber(part_number), c, <<>>))
    /\ wpc' = "part_wait"

\* bucket.rs:415-432: build the manifest and send CompleteMultipartUpload
SendComplete ==
    /\ requests' = Append(requests,
                          Request("CompleteMultipartUpload", upload_id, 0,
                                  <<>>, Manifest(etags)))
    /\ wpc' = "complete_wait"

\* bucket.rs:366-370: the first pass of the loop takes first_chunk
WriterTakeFirst ==
    /\ wpc = "loop"
    /\ part_number = 0
    /\ UploadChunk(first_chunk)
    /\ first_chunk' = <<>>
    /\ UNCHANGED <<upload_id, etags, perr, wres, rxAlive, chan>>
    /\ UNCHANGED readerVars
    /\ UNCHANGED otherVars

\* bucket.rs:372-373: recv_async yields Some(chunk)
WriterRecvChunk ==
    /\ wpc = "loop"
    /\ part_number # 0
    /\ chan # <<>>
    /\ LET i == RecvIndex(chan) IN
        /\ chan[i].some
        /\ UploadChunk(chan[i].data)
        /\ chan' = [j \in 1..(Len(chan) - 1) |->
                        IF j < i THEN chan[j] ELSE chan[j + 1]]
    /\ UNCHANGED <<upload_id, etags, perr, wres, rxAlive, first_chunk>>
    /\ UNCHANGED readerVars
    /\ UNCHANGED otherVars

\* bucket.rs:374-377: recv_async yields None, the loop is left
WriterRecvNone ==
    /\ wpc = "loop"
    /\ part_number # 0
    /\ chan # <<>>
    /\ LET i == RecvIndex(chan) IN
        /\ ~chan[i].some
        /\ chan' = [j \in 1..(Len(chan) - 1) |->
                        IF j < i THEN chan[j] ELSE chan[j + 1]]
    /\ SendComplete
    /\ UNCHANGED <<upload_id, part_number, etags, total_size, chunk, perr,
                   wres, rxAlive, first_chunk>>
    /\ UNCHANGED readerVars
    /\ UNCHANGED otherVars

\* bucket.rs:378-381: recv_async yields Err because every sender is gone
\* and the queue is empty, the loop is left
WriterRecvClosed ==
    /\ wpc = "loop"
    /\ part_number # 0
    /\ chan = <<>>
    /\ ~txAlive
    /\ SendComplete
    /\ UNCHANGED <<upload_id, part_number, etags, total_size, chunk, perr,
                   wres, rxAlive, first_chunk, chan>>
    /\ UNCHANGED readerVars
    /\ UNCHANGED otherVars

\* bucket.rs:395-407: the part response is 2xx with a readable ETag
WriterPartOk ==
    /\ wpc = "part_wait"
    /\ \E e \in ETags :
        /\ requests' = Answer(requests, "ok", e)
        /\ etags' = Append(etags, e)
    /\ chunk' = NoBuf
    /\ wpc' = "loop"
    /\ UNCHANGED <<upload_id, part_number, total_size, perr, wres, rxAlive,
                   first_chunk, chan>>
    /\ UNCHANGED readerVars
    /\ UNCHANGED otherVars

\* mutant: a part response without a usable ETag is skipped and the loop
\* goes on
WriterPartBadETag_Skip ==
    /\ wpc = "part_wait"
    /\ \/ requests' = Answer(requests, "noetag", 0)
       \/ requests' = Answer(requests, "badetag", 0)
    /\ chunk' = NoBuf
    /\ wpc' = "loop"
    /\ UNCHANGED <<upload_id, part_number, etags, total_size, perr, wres,
                   rxAlive, first_chunk, chan>>
    /\ UNCHANGED readerVars
    /\ UNCHANGED otherVars

\* bucket.rs:396-405: the part response is 2xx but the ETag header is
\* missing or is not a string; `?` ends the task
WriterPartBadETag ==
    /\ wpc = "part_wait"
    /\ \/ /\ requests' = Answer(requests, "noetag", 0)
          /\ WriterReturn(Err(Error("UnexpectedResponse", Len(requests))))
       \/ /\ requests' = Answer(requests, "badetag", 0)
          /\ WriterReturn(Err(Error("HeaderToStr", Len(requests))))
    /\ UNCHANGED <<upload_id, part_number, etags, total_size, perr,
                   first_chunk>>
    /\ UNCHANGED readerVars
    /\ UNCHANGED otherVars

\* mutant: the part failure is returned without aborting the upload
WriterPartErr_NoAbort ==
    /\ wpc = "part_wait"
    /\ perr' = Error("HttpFailWithBody", Len(requests))
    /\ requests' = Answer(requests, "fail", 0)
    /\ WriterReturn(Err(Error("HttpFailWithBody", Len(requests))))
    /\ UNCHANGED <<upload_id, part_number, etags, total_size, first_chunk>>
    /\ UNCHANGED readerVars
    /\ UNCHANGED otherVars

\* mutant: the abort request is sent but the task returns the part failure
\* without waiting for the abort's response
WriterPartErr_AbortNotAwaited ==
    /\ wpc = "part_wait"
    /\ perr' = Error("HttpFailWithBody", Len(requests))
    /\ requests' = Append(Answer(requests, "fail", 0),
                          Request("AbortMultipartUpload", upload_id, 0,
                                  <<>>, <<>>))
    /\ WriterReturn(Err(Error("HttpFailWithBody", Len(requests))))
    /\ UNCHANGED <<upload_id, part_number, etags, total_size, first_chunk>>
    /\ UNCHANGED readerVars
    /\ UNCHANGED otherVars

\* bucket.rs:408-410 / 618-621: the part request failed, send
\* AbortMultipartUpload and wait for it
WriterPartErr ==
    /\ wpc = "part_wait"
    /\ perr' = Error("HttpFailWithBody", Len(requests))
    /\ requests' = Append(Answer(requests, "fail", 0),
                          Request("AbortMultipartUpload", upload_id, 0,
                                  <<>>, <<>>))
    /\ chunk' = NoBuf
    /\ wpc' = "abort_wait"
    /\ UNCHANGED <<upload_id, part_number, etags, total_size, wres, rxAlive,
                   first_chunk, chan>>
    /\ UNCHANGED readerVars
    /\ UNCHANGED otherVars

\* mutant: after the abort the loop is left with `break` instead of
\* `return`, so the task goes on to complete the upload
WriterAbortResp_Break ==
    /\ wpc = "abort_wait"
    /\ \/ /\ requests' = Append(Answer(requests, "ok", 0),
                                Request("CompleteMultipartUpload", upload_id,
                                        0, <<>>, Manifest(etags)))
          /\ wpc' = "complete_wait"
          /\ UNCHANGED <<wres, rxAlive, chunk, chan>>
       \/ /\ requests' = Answer(requests, "fail", 0)
          /\ WriterReturn(Err(Error("HttpFailWithBody", Len(requests))))
    /\ UNCHANGED <<upload_id, part_number, etags, total_size, perr,
                   first_chunk>>
    /\ UNCHANGED readerVars
    /\ UNCHANGED otherVars

\* mutant: the part's failure is returned whatever the abort's outcome
WriterAbortResp_OriginalFirst ==
    /\ wpc = "abort_wait"
    /\ \/ requests' = Answer(requests, "ok", 0)
       \/ requests' = Answer(requests, "fail", 0)
    /\ WriterReturn(Err(perr))
    /\ UNCHANGED <<upload_id, part_number, etags, total_size, perr,
                   first_chunk>>
    /\ UNCHANGED readerVars
    /\ UNCHANGED otherVars

\* bucket.rs:410-411 / 621-629: the abort response; `?` returns the abort's
\* failure, otherwise the part's failure is returned
WriterAbortResp ==
    /\ wpc = "abort_wait"
    /\ \/ /\ requests' = Answer(requests, "ok", 0)
          /\ WriterReturn(Err(perr))
       \/ /\ requests' = Answer(requests, "fail", 0)
          /\ WriterReturn(Err(Error("HttpFailWithBody", Len(requests))))
    /\ UNCHANGED <<upload_id, part_number, etags, total_size, perr,
                   first_chunk>>
    /\ UNCHANGED readerVars
    /\ UNCHANGED otherVars

\* mutant: a failed complete is followed by an AbortMultipartUpload
WriterCompleteResp_AbortOnFail ==
    /\ wpc = "complete_wait"
    /\ \/ /\ requests' = Answer(requests, "ok", 0)
          /\ WriterReturn(Ok(total_size))
       \/ /\ requests' = Append(Answer(requests, "fail", 0),
                                Request("AbortMultipartUpload", upload_id, 0,
                                        <<>>, <<>>))
          /\ WriterReturn(Err(Error("HttpFailWithBody", Len(requests))))
    /\ UNCHANGED <<upload_id, part_number, etags, total_size, perr,
                   first_chunk>>
    /\ UNCHANGED readerVars
    /\ UNCHANGED otherVars

\* bucket.rs:430-440: the complete response
WriterCompleteResp ==
    /\ wpc = "complete_wait"
    /\ \/ /\ requests' = Answer(requests, "ok", 0)
          /\ WriterReturn(Ok(total_size))
       \/ /\ requests' = Answer(requests, "fail", 0)
          /\ WriterReturn(Err(Error("HttpFailWithBody", Len(requests))))
    /\ UNCHANGED <<upload_id, part_number, etags, total_size, perr,
                   first_chunk>>
    /\ UNCHANGED readerVars
    /\ UNCHANGED otherVars

\* ------------------------------------------------------------------- Next
\* the steps of the caller task
ReaderStep ==
    \/ FirstReadErr
    \/ FirstReadSmall
    \/ PutResp
    \/ FirstReadLarge
    \/ ReaderAlloc
    \/ ReaderReadOk
    \/ ReaderReadErr
    \/ ReaderSend
    \/ ReaderJoin

\* the steps of the spawned writer task
WriterStep ==
    \/ WriterInitiate
    \/ WriterInitiateResp
    \/ WriterTakeFirst
    \/ WriterRecvChunk
    \/ WriterRecvNone
    \/ WriterRecvClosed
    \/ WriterPartOk
    \/ WriterPartBadETag
    \/ WriterPartErr
    \/ WriterAbortResp
    \/ WriterCompleteResp

Next ==
    \/ FirstReadErr
    \/ FirstReadSmall
    \/ PutResp
    \/ FirstReadLarge
    \/ ReaderAlloc
    \/ ReaderReadOk
    \/ ReaderReadErr
    \/ ReaderSend
    \/ ReaderJoin
    \/ CallerCancel
    \/ WriterInitiate
    \/ WriterInitiateResp
    \/ WriterTakeFirst
    \/ WriterRecvChunk
    \/ WriterRecvNone
    \/ WriterRecvClosed
    \/ WriterPartOk
    \/ WriterPartBadETag
    \/ WriterPartErr
    \/ WriterAbortResp
    \/ WriterCompleteResp

Spec == Init /\ [][Next]_vars

\* the tokio scheduler runs every task that can make progress, every read
\* of the source and every request is answered; nothing obliges the caller
\* to drop the future
FairSpec == Spec /\ WF_vars(ReaderStep) /\ WF_vars(WriterStep)

\* ------------------------------------------------------- reading the log
ReqIdx(cmd) == {i \in DOMAIN requests : requests[i].cmd = cmd}
\* the requests of one kind, in the order they were issued
ReqSeq(cmd) == SelectSeq(requests, LAMBDA r : r.cmd = cmd)
Terminal == {"CompleteMultipartUpload", "AbortMultipartUpload"}
WithUploadId == Terminal \cup {"UploadPart"}
TerminalIdx(uid) ==
    {i \in DOMAIN requests : requests[i].cmd \in Terminal /\ requests[i].uid = uid}
FailedParts == {i \in ReqIdx("UploadPart") : requests[i].st = "fail"}

\* the k-th CHUNK_SIZE-sized piece of the source stream
StreamChunk(k) ==
    SubSeq(stream, (k - 1) * CHUNK_SIZE + 1, Min(k * CHUNK_SIZE, Len(stream)))

RECURSIVE ConcatBodies(_)
ConcatBodies(rs) ==
    IF rs = <<>> THEN <<>> ELSE rs[1].body \o ConcatBodies(Tail(rs))

\* C1: once an UploadPart request has failed, exactly one
\* AbortMultipartUpload has been issued for the session's upload_id and no
\* CompleteMultipartUpload is ever issued for it.
C1_AbortOnPartFailure ==
    \A i \in FailedParts :
        /\ Cardinality({a \in ReqIdx("AbortMultipartUpload") :
                            requests[a].uid = requests[i].uid}) = 1
        /\ \A c \in ReqIdx("CompleteMultipartUpload") :
                requests[c].uid # requests[i].uid

C1_Witness ==
    /\ FailedParts # {}
    /\ rpc = "returned"
    /\ Len(ReqSeq("UploadPart")) >= 2

\* C2 (as claimed): when put_stream_with has returned, a session created by
\* a successful InitiateMultipartUpload has received exactly one terminal
\* call (Complete or Abort).
C2_OneTerminalCall ==
    (rpc = "returned" /\ upload_id # 0) =>
        Cardinality(TerminalIdx(upload_id)) = 1

\* C3: whenever CompleteMultipartUpload has been issued, the UploadPart
\* requests were numbered 1..N in issue order and the manifest lists exactly
\* parts 1..N in increasing order, part k with the ETag of the k-th
\* UploadPart response.
C3_ContiguousParts ==
    \A c \in ReqIdx("CompleteMultipartUpload") :
        LET parts == ReqSeq("UploadPart")
            m == requests[c].manifest
        IN  /\ \A k \in DOMAIN parts :
                    parts[k].part = k /\ parts[k].uid = requests[c].uid
            /\ Len(m) = Len(parts)
            /\ \A k \in DOMAIN m :
                    m[k].part_number = k /\ m[k].etag = parts[k].etag

C3_Witness ==
    \E c \in ReqIdx("CompleteMultipartUpload") :
        /\ Len(requests[c].manifest) >= 3
        /\ \E j, k \in DOMAIN requests[c].manifest :
                requests[c].manifest[j].etag # requests[c].manifest[k].etag

\* the chunk buffers alive: the one the reader fills or tries to send, the
\* ones queued in the channel, the one the uploader is sending
ChunksAlive ==
    (IF rpc \in {"read", "send"} /\ buf.some THEN 1 ELSE 0)
    + Cardinality({j \in DOMAIN chan : chan[j].some})
    + (IF chunk.some THEN 1 ELSE 0)

\* C4 (as claimed): at every instant at most 2 chunk buffers are alive.
C4_AtMostTwoChunks == ChunksAlive <= 2

\* C5: when every read succeeds and the server accepts every request, the
\* bytes transmitted (the single Put body, or the part bodies in part
\* order) are exactly the source stream and uploaded_bytes is its length.
C5_RoundTrip ==
    (/\ rpc = "returned"
     /\ readErr = 0
     /\ \A i \in DOMAIN requests : requests[i].st = "ok") =>
        /\ result.ok
        /\ result.uploaded_bytes = Len(stream)
        /\ IF ReqIdx("PutObject") # {}
           THEN ConcatBodies(ReqSeq("PutObject")) = stream
           ELSE /\ ConcatBodies(ReqSeq("UploadPart")) = stream
                /\ \A k \in DOMAIN ReqSeq("UploadPart") :
                        ReqSeq("UploadPart")[k].part = k

C5_Witness ==
    /\ rpc = "returned"
    /\ result.ok
    /\ Len(stream) = 3 * CHUNK_SIZE + 1
    /\ result.uploaded_bytes = 3 * CHUNK_SIZE + 1

C7_PartsInReadOrder ==
    LET parts == ReqSeq("UploadPart") IN
    \A k \in DOMAIN parts :
        /\ parts[k].part = k
        /\ parts[k].body = StreamChunk(k)
        /\ k < Len(parts) => parts[k].st # "pending"

C7_Witness ==
    /\ Len(ReqSeq("UploadPart")) >= 3
    /\ Len(chan) = ChanCap
    /\ wpc = "part_wait"

\* C8 (as claimed): after a read of the source failed in the reader loop,
\* the call eventually returns an error (unless the caller dropped it).
C8_ReadErrorReturns ==
    (readErr > 1 /\ rpc = "join") ~>
        (rpc = "cancelled" \/ (rpc = "returned" /\ ~result.ok))

\* C9: when put_stream_with returns after an UploadPart request failed, the
\* abort request has been issued and answered, and if it succeeded the
\* error returned is the failure of that UploadPart request.
C9_AbortBeforeOriginalError ==
    (rpc = "returned" /\ FailedParts # {}) =>
        \A i \in FailedParts :
            \E a \in ReqIdx("AbortMultipartUpload") :
                /\ a > i
                /\ requests[a].st # "pending"
                /\ requests[a].st = "ok" =>
                        result = Err(Error("HttpFailWithBody", i))

C9_Witness ==
    /\ rpc = "returned"
    /\ FailedParts # {}
    /\ \E a \in ReqIdx("AbortMultipartUpload") : requests[a].st = "ok"

\* C10: no request carrying an upload_id is issued after a Complete or
\* Abort request for that upload_id.
C10_NoUseAfterTerminal ==
    \A i, j \in DOMAIN requests :
        (/\ i < j
         /\ requests[i].cmd \in Terminal
         /\ requests[j].cmd \in WithUploadId) =>
            requests[j].uid # requests[i].uid

C10_Witness ==
    /\ wpc = "done"
    /\ rpc \in {"returned", "cancelled"}
    /\ \E i \in DOMAIN requests :
            requests[i].cmd \in Terminal /\ requests[i].st = "fail"


\* ====================================================================
\* Bucket::list and Bucket::list_page (src/src/bucket.rs:475-530)
\* ====================================================================
Chars == 1..NumChars
Strs == UNION {[1..n -> Chars] : n \in 0..MaxStrLen}
OptStrs == {None} \cup {Some(x) : x \in Strs}
\* list gives up after this many requests (never reached by the code as is)
MaxListRequests == MaxKeys + 1

\* String's Ord: byte-wise lexicographic
RECURSIVE StrLess(_, _)
StrLess(a, b) ==
    IF a = <<>> THEN b # <<>>
    ELSE IF b = <<>> THEN FALSE
    ELSE IF a[1] # b[1] THEN a[1] < b[1]
    ELSE StrLess(Tail(a), Tail(b))

\* Option<String>'s derived Ord: None is less than every Some
OptLess(a, b) ==
    IF ~a.some THEN b.some ELSE b.some /\ StrLess(a.data, b.data)

\* mutant: the continuation token wins whenever it is present
OptMax_Or(a, b) == IF a.some THEN a ELSE b

\* std::cmp::max(a, b): a only if it is greater than b
OptMax(a, b) == IF OptLess(b, a) THEN a ELSE b

\* bucket.rs:483-501: the command list_page builds
ListCommand(v2, continuation_token, start_after) ==
    IF v2
    THEN [cmd |-> "ListObjectsV2", continuation_token |-> continuation_token,
          start_after |-> start_after, marker |-> None]
    ELSE [cmd |-> "ListObjects", continuation_token |-> None,
          start_after |-> None,
          marker |-> OptMax(continuation_token, start_after)]

\* query_pairs.append_pair(name, v) if the option holds a value
OptPair(name, o) == IF o.some THEN <<[k |-> name, v |-> o.data]>> ELSE <<>>

\* bucket.rs:887-931: the query build_url appends for a list command
\* (empty prefix, no delimiter, no max-keys, as list passes them)
ListQuery(c) ==
    IF c.cmd = "ListObjectsV2"
    THEN <<[k |-> "prefix", v |-> <<>>], [k |-> "list-type", v |-> <<2>>]>>
         \o OptPair("continuation-token", c.continuation_token)
         \o OptPair("start-after", c.start_after)
    ELSE <<[k |-> "prefix", v |-> <<>>]>> \o OptPair("marker", c.marker)

\* the value of the query parameter `name`, if the query has it
QueryGet(q, name) ==
    IF \E i \in DOMAIN q : q[i].k = name
    THEN Some(q[CHOOSE i \in DOMAIN q : q[i].k = name].v)
    ELSE None

\* where the server starts: after the continuation token or the start-after
\* key (v2), after the marker (v1)
ServerCursor(q) ==
    IF QueryGet(q, "list-type").some
    THEN IF QueryGet(q, "continuation-token").some
         THEN QueryGet(q, "continuation-token")
         ELSE QueryGet(q, "start-after")
    ELSE QueryGet(q, "marker")

\* the ListBucketResult the server answers the query q with: the next keys
\* after the cursor, at most `page` of them
ServerPage(listing, page, srvNext, q) ==
    LET cur == ServerCursor(q)
        rest == SelectSeq(listing, LAMBDA key : ~cur.some \/ StrLess(cur.data, key))
        contents == SubSeq(rest, 1, Min(page, Len(rest)))
        truncated == Len(rest) > page
    IN  [contents |-> contents,
         is_truncated |-> truncated,
         next_continuation_token |->
            IF truncated /\ srvNext THEN Some(contents[Len(contents)]) ELSE None]

ListOk(pages) == [ok |-> TRUE, pages |-> pages, err |-> NoErr]
ListErr(e) == [ok |-> FALSE, pages |-> <<>>, err |-> e]

\* mutant: the loop is left when the page is not truncated
ListStops_NotTruncated(page) == ~page.is_truncated

\* bucket.rs:522-526: `if continuation_token.is_none() { break }`
ListStops(page) == ~page.next_continuation_token.some

\* mutant: the newest page is put in front
Accumulate_Front(results, page) == <<page>> \o results

\* bucket.rs:523: results.push(list_bucket_result)
Accumulate(results, page) == Append(results, page)

PutIdle ==
    /\ stream = <<>>
    /\ pos = 0
    /\ readErr = 0
    /\ reads = 0
    /\ rpc = "idle"
    /\ buf = NoBuf
    /\ first_chunk = <<>>
    /\ chan = <<>>
    /\ txAlive = FALSE
    /\ rxAlive = FALSE
    /\ wpc = "notspawned"
    /\ upload_id = 0
    /\ part_number = 0
    /\ etags = <<>>
    /\ total_size = 0
    /\ chunk = NoBuf
    /\ perr = NoErr
    /\ wres = Pending
    /\ requests = <<>>
    /\ result = Pending

ListInit ==
    /\ PutIdle
    /\ SignIdle
    /\ SendIdle
    /\ ClientIdle
    /\ DebugIdle
    /\ QueryIdle
    /\ l_op \in {"list", "list_page"}
    /\ l_v2 \in BOOLEAN
    /\ \E n \in 0..MaxKeys : l_listing = [i \in 1..n |-> <<i>>]
    /\ l_page \in 1..MaxPage
    /\ l_srvNext \in BOOLEAN
    /\ IF l_op = "list"
       THEN l_in = [continuation_token |-> None, start_after |-> None]
       ELSE l_in \in [continuation_token : OptStrs, start_after : OptStrs]
    /\ l_pc = "loop"
    /\ l_token = None
    /\ l_results = <<>>
    /\ l_requests = <<>>
    /\ l_responses = <<>>
    /\ l_result = ListErr(NoErr)

\* bucket.rs:483-503: list_page builds its command and sends it; list calls
\* it with its continuation_token and no start_after (bucket.rs:519-521)
ListPageSend ==
    /\ l_pc = "loop"
    /\ Len(l_requests) < MaxListRequests
    /\ LET tok == IF l_op = "list" THEN l_token ELSE l_in.continuation_token
           sa == IF l_op = "list" THEN None ELSE l_in.start_after
           c == ListCommand(l_v2, tok, sa)
       IN  l_requests' = Append(l_requests,
                [cmd |-> c.cmd, marker |-> c.marker, query |-> ListQuery(c),
                 in_token |-> tok, in_start_after |-> sa])
    /\ l_pc' = "wait"
    /\ UNCHANGED <<l_op, l_v2, l_listing, l_page, l_srvNext, l_in, l_token,
                   l_results, l_responses, l_result>>
    /\ UNCHANGED outsideList

\* bucket.rs:503-506, 521: the request or the decoding of its body fails,
\* `?` hands the error to the caller
ListPageFail ==
    /\ l_pc = "wait"
    /\ \E kind \in {"HttpFailWithBody", "SerdeXml"} :
            l_result' = ListErr(Error(kind, Len(l_requests)))
    /\ l_pc' = "done"
    /\ UNCHANGED <<l_op, l_v2, l_listing, l_page, l_srvNext, l_in, l_token,
                   l_results, l_requests, l_responses>>
    /\ UNCHANGED outsideList

\* bucket.rs:519-529: list receives a page
ListResp ==
    /\ l_pc = "wait"
    /\ l_op = "list"
    /\ LET page == ServerPage(l_listing, l_page, l_srvNext,
                              l_requests[Len(l_requests)].query)
       IN  /\ l_responses' = Append(l_responses, page)
           /\ l_token' = page.next_continuation_token
           /\ l_results' = Accumulate(l_results, page)
           /\ IF ListStops(page)
              THEN /\ l_pc' = "done"
                   /\ l_result' = ListOk(Accumulate(l_results, page))
              ELSE /\ l_pc' = "loop"
                   /\ l_result' = l_result
    /\ UNCHANGED <<l_op, l_v2, l_listing, l_page, l_srvNext, l_in, l_requests>>
    /\ UNCHANGED outsideList

\* bucket.rs:503-506: a direct caller of list_page receives its page
PageResp ==
    /\ l_pc = "wait"
    /\ l_op = "list_page"
    /\ LET page == ServerPage(l_listing, l_page, l_srvNext,
                              l_requests[Len(l_requests)].query)
       IN  /\ l_responses' = Append(l_responses, page)
           /\ l_result' = ListOk(<<page>>)
    /\ l_pc' = "done"
    /\ UNCHANGED <<l_op, l_v2, l_listing, l_page, l_srvNext, l_in, l_token,
                   l_results, l_requests>>
    /\ UNCHANGED outsideList

ListNext ==
    \/ ListPageSend
    \/ ListPageFail
    \/ ListResp
    \/ PageResp

ListSpec == ListInit /\ [][ListNext]_vars

\* the token a list request carries: continuation-token (v2) or marker (v1)
SentToken(r) ==
    IF r.cmd = "ListObjectsV2" THEN QueryGet(r.query, "continuation-token")
    ELSE QueryGet(r.query, "marker")

RECURSIVE ConcatContents(_)
ConcatContents(pages) ==
    IF pages = <<>> THEN <<>>
    ELSE pages[1].contents \o ConcatContents(Tail(pages))

\* C11: list sends its first request without a token and request k+1 with
\* the next-continuation-token of page k, keeps the pages in the order
\* received, sends nothing after a page without a next token and returns
\* all pages exactly when such a page arrives.
C11_ListChainsTokens ==
    l_op = "list" =>
        /\ Len(l_responses) <= Len(l_requests)
        /\ \A k \in DOMAIN l_requests :
                /\ SentToken(l_requests[k]) =
                        IF k = 1 THEN None
                        ELSE l_responses[k - 1].next_continuation_token
                /\ k > 1 => l_responses[k - 1].next_continuation_token.some
        /\ l_results = l_responses
        /\ (l_pc = "done" /\ l_result.ok) =>
                /\ l_result.pages = l_responses
                /\ Len(l_responses) = Len(l_requests)
                /\ ~l_responses[Len(l_responses)].next_continuation_token.some
        /\ (l_pc = "loop" /\ l_responses # <<>>) =>
                l_responses[Len(l_responses)].next_continuation_token.some

C11_Witness ==
    /\ l_op = "list"
    /\ l_pc = "done"
    /\ l_result.ok
    /\ Len(l_result.pages) >= 3

C18_MarkerIsGreater ==
    \A k \in DOMAIN l_requests :
        LET r == l_requests[k]
            m == QueryGet(r.query, "marker")
        IN  r.cmd = "ListObjects" =>
                /\ m \in {r.in_token, r.in_start_after}
                /\ ~OptLess(m, r.in_token)
                /\ ~OptLess(m, r.in_start_after)
                /\ ~m.some <=> (~r.in_token.some /\ ~r.in_start_after.some)

C18_Witness ==
    /\ l_op = "list_page"
    /\ l_pc = "done"
    /\ \E k \in DOMAIN l_requests :
            /\ l_requests[k].cmd = "ListObjects"
            /\ l_requests[k].in_token.some
            /\ l_requests[k].in_start_after.some
            /\ StrLess(l_requests[k].in_token.data,
                       l_requests[k].in_start_after.data)
            /\ QueryGet(l_requests[k].query, "marker") =
                    l_requests[k].in_start_after


\* ====================================================================
\* Bucket::send_request and the calls that go through it once
\* (src/src/bucket.rs:138-151, 632-840; src/src/command.rs:126-188)
\* ====================================================================
Variants ==
    {"HeadObject", "CopyObject", "DeleteObject", "DeleteObjectTagging",
     "GetObject", "GetObjectRange", "GetObjectTagging", "PutObject",
     "PutObjectTagging", "ListMultipartUploads", "ListObjects",
     "ListObjectsV2", "GetBucketLocation", "InitiateMultipartUpload",
     "UploadPart", "AbortMultipartUpload", "CompleteMultipartUpload"}

\* the variants that carry `content`, `tags` or `data`
WithPayload ==
    {"PutObject", "PutObjectTagging", "UploadPart", "CompleteMultipartUpload"}

\* the variants that carry the caller's HeaderMap
WithHeaders == {"PutObject", "InitiateMultipartUpload", "CopyObject"}

\* header names a caller may pass in `extra_headers`
CallerHeaderNames == {"content-type", "cache-control", "date"}

Bodies == UNION {[1..n -> {1}] : n \in 0..MaxBody}

\* the status codes the server may answer with
Statuses == {199, 200, 204, 299, 300, 404, 500}

\* a Command: its variant, its payload (content, tags or the rendered
\* data), the caller's headers, whether a PutObject is a multipart part,
\* and the range of a GetObjectRange
Command(variant, payload, headers, multipart, start, end) ==
    [variant |-> variant, payload |-> payload, headers |-> headers,
     multipart |-> multipart, start |-> start, end |-> end]

Commands ==
    {Command(v, b, h, m, 0, [some |-> FALSE, val |-> 0]) :
        v \in Variants \ {"GetObjectRange"}, b \in Bodies,
        h \in SUBSET CallerHeaderNames, m \in BOOLEAN}

\* the commands as the crate can build them: fields a variant does not
\* have are left at their defaults
WellFormed(c) ==
    /\ c.variant \notin WithPayload => c.payload = <<>>
    /\ c.variant \notin WithHeaders => c.headers = {}
    /\ c.variant # "PutObject" => ~c.multipart

RangeArgs ==
    {Command("GetObjectRange", <<>>, {}, FALSE, st, en) :
        st \in 0..MaxOffset,
        en \in {[some |-> FALSE, val |-> 0]}
               \cup {[some |-> TRUE, val |-> e] : e \in 0..MaxOffset}}

\* mutant: only start > end is refused
RangeRejected_Gt(start, end) == end.some /\ start > end.val

\* bucket.rs:144-148: `if let Some(end) = end { if start >= end { Err } }`
RangeRejected(start, end) == end.some /\ start >= end.val

\* SHA-256 and MD5 as injective functions of the bytes hashed
Sha256(bytes) == [sha256 |-> bytes]
Md5(bytes) == [md5 |-> bytes]
\* constants.rs:4-5: the SHA-256 of the empty string
EMPTY_PAYLOAD_SHA == Sha256(<<>>)

\* command.rs:169-188
CommandSha256(c) ==
    IF c.variant \in {"PutObject", "PutObjectTagging", "CompleteMultipartUpload"}
    THEN Sha256(c.payload)
    ELSE EMPTY_PAYLOAD_SHA

\* command.rs:150-158
CommandContentLength(c) ==
    IF c.variant \in WithPayload THEN Len(c.payload) ELSE 0

\* bucket.rs:644-653: the body send_request gives the request
RequestBody(c) ==
    IF c.variant \in WithPayload THEN c.payload ELSE <<>>

\* HeaderMap::insert: the value of an existing name is replaced
Insert(h, name, value) ==
    [n \in DOMAIN h \cup {name} |-> IF n = name THEN value ELSE h[n]]

EmptyHeaders == [n \in {} |-> ""]

\* bucket.rs:695-700: the caller's map is re-used where the command has one
InitialHeaders(c) ==
    IF c.variant \in WithHeaders
    THEN [n \in c.headers |-> "caller"]
    ELSE EmptyHeaders

\* bucket.rs:714-764: the command specific headers
CommandHeaders(c, h) ==
    CASE c.variant = "CopyObject" -> Insert(h, "x-amz-copy-source", "from")
      [] c.variant \in {"ListObjects", "ListObjectsV2", "GetObject",
                        "GetObjectTagging", "GetBucketLocation",
                        "DeleteObject", "GetObjectRange", "HeadObject"} -> h
      [] c.variant = "InitiateMultipartUpload" ->
            IF "content-type" \in DOMAIN h THEN h
            ELSE Insert(h, "content-type", "application/octet-stream")
      [] c.variant = "CompleteMultipartUpload" ->
            Insert(h, "content-type", "application/xml")
      [] c.variant = "PutObject" ->
            IF ~c.multipart /\ "content-type" \notin DOMAIN h
            THEN Insert(h, "content-type", "application/octet-stream")
            ELSE h
      [] OTHER ->
            Insert(Insert(h, "content-length", CommandContentLength(c)),
                   "content-type", "text/plain")

\* bucket.rs:776-809: content-md5, accept and range
PayloadHeaders(c, h) ==
    CASE c.variant \in {"PutObjectTagging", "PutObject", "UploadPart"} ->
            Insert(h, "content-md5", Md5(c.payload))
      [] c.variant = "GetObject" ->
            Insert(h, "accept", "application/octet-stream")
      [] c.variant = "GetObjectRange" ->
            Insert(Insert(h, "accept", "application/octet-stream"),
                   "range", [start |-> c.start, end |-> c.end])
      [] OTHER -> h

\* bucket.rs:691-809: the headers at the moment they are signed
HeadersToSign(c) ==
    LET h1 == Insert(InitialHeaders(c), "host", "host")
        h2 == CommandHeaders(c, h1)
        h3 == Insert(Insert(h2, "x-amz-content-sha256", CommandSha256(c)),
                     "x-amz-date", "long-date(now)")
    IN  PayloadHeaders(c, h3)

\* signature.rs:99-106: the names of the headers, sorted and joined
SignedHeaderSet(h) == DOMAIN h

\* bucket.rs:686-840: build_headers; the result keeps what was signed next
\* to the headers that go out
BuildHeaders(c) ==
    LET signedMap == HeadersToSign(c)
        auth == [signed_headers |-> SignedHeaderSet(signedMap),
                 canonical_headers |-> signedMap,
                 payload_hash |-> CommandSha256(c)]
        h5 == Insert(signedMap, "authorization", auth)
        h6 == Insert(h5, "date", "rfc2822(now)")
    IN  [headers |-> h6, signed |-> auth]

\* mutant: only 200 counts as success
IsSuccess_Only200(status) == status = 200

\* StatusCode::is_success
IsSuccess(status) == 200 <= status /\ status <= 299

SendOk(status) == [ok |-> TRUE, status |-> status, err |-> NoErr]
SendErr(kind, status, text) ==
    [ok |-> FALSE, status |-> 0,
     err |-> [kind |-> kind, status |-> status, text |-> text]]

SendInit ==
    /\ PutIdle
    /\ SignIdle
    /\ ListIdle
    /\ ClientIdle
    /\ DebugIdle
    /\ QueryIdle
    /\ \/ /\ s_op = "send_request"
          /\ s_cmd \in {c \in Commands : WellFormed(c)}
       \/ /\ s_op = "get_range"
          /\ s_cmd \in RangeArgs
    /\ s_pc = "call"
    /\ s_req = <<>>
    /\ s_sent = 0
    /\ s_resp = [status |-> 0, text |-> "", readable |-> TRUE]
    /\ s_result = SendErr("none", 0, "")

\* bucket.rs:144-147: get_range refuses the range
GetRangeReject ==
    /\ s_pc = "call"
    /\ s_op = "get_range"
    /\ RangeRejected(s_cmd.start, s_cmd.end)
    /\ s_result' = SendErr("Range", 0, "start must be < than end")
    /\ s_pc' = "done"
    /\ UNCHANGED <<s_op, s_cmd, s_req, s_sent, s_resp>>
    /\ UNCHANGED outsideSend

\* bucket.rs:637-654: send_request builds url, headers and body and hands
\* the request to the client (for get_range: after the check of 144-148)
SendRequest ==
    /\ s_pc = "call"
    /\ s_op = "get_range" => ~RangeRejected(s_cmd.start, s_cmd.end)
    /\ LET b == BuildHeaders(s_cmd) IN
        s_req' = [variant |-> s_cmd.variant, headers |-> b.headers,
                  signed |-> b.signed, body |-> RequestBody(s_cmd)]
    /\ s_sent' = s_sent + 1
    /\ s_pc' = "wait"
    /\ UNCHANGED <<s_op, s_cmd, s_resp, s_result>>
    /\ UNCHANGED outsideSend

\* bucket.rs:654-655: `.send().await?` fails, there is no response
SendTransportErr ==
    /\ s_pc = "wait"
    /\ s_result' = SendErr("Reqwest", 0, "")
    /\ s_pc' = "done"
    /\ UNCHANGED <<s_op, s_cmd, s_req, s_sent, s_resp>>
    /\ UNCHANGED outsideSend

\* bucket.rs:657-664: a response arrives
SendResp ==
    /\ s_pc = "wait"
    /\ \E status \in Statuses, text \in {"", "<Error/>"}, readable \in BOOLEAN :
        /\ s_resp' = [status |-> status, text |-> text, readable |-> readable]
        /\ s_result' =
            IF IsSuccess(status) THEN SendOk(status)
            ELSE IF readable THEN SendErr("HttpFailWithBody", status, text)
            ELSE SendErr("Reqwest", 0, "")
    /\ s_pc' = "done"
    /\ UNCHANGED <<s_op, s_cmd, s_req, s_sent>>
    /\ UNCHANGED outsideSend

SendNext ==
    \/ GetRangeReject
    \/ SendRequest
    \/ SendTransportErr
    \/ SendResp

SendSpec == SendInit /\ [][SendNext]_vars

\* C13: get_range(path, start, Some(end)) with start >= end returns the
\* range error without a request; otherwise one request is issued.
C13_RangeCheckedBeforeRequest ==
    s_op = "get_range" =>
        IF s_cmd.end.some /\ s_cmd.start >= s_cmd.end.val
        THEN /\ s_sent = 0
             /\ s_pc \in {"call", "done"}
             /\ s_pc = "done" => s_result = SendErr("Range", 0, "start must be < than end")
        ELSE /\ s_pc # "call" => s_sent = 1
             /\ s_pc = "call" => s_sent = 0
             /\ s_result.err.kind # "Range"
             /\ s_pc # "call" => s_req.headers["range"] =
                                    [start |-> s_cmd.start, end |-> s_cmd.end]

C13_Witness ==
    /\ s_op = "get_range"
    /\ s_pc = "done"
    /\ s_cmd.end.some
    /\ s_cmd.start = s_cmd.end.val
    /\ s_result.err.kind = "Range"
    /\ s_sent = 0

\* a response has arrived for the request that was sent
Answered == s_pc = "done" /\ s_sent = 1 /\ s_resp.status # 0

\* C15 (as stated): send_request returns Ok exactly when the status is
\* 2xx; for every other status it returns a failure that carries the
\* numeric status and the body text.
C15_Original ==
    Answered =>
        /\ s_result.ok <=> s_resp.status \in 200..299
        /\ s_result.ok => s_result.status = s_resp.status
        /\ s_resp.status \notin 200..299 =>
              s_result = SendErr("HttpFailWithBody", s_resp.status, s_resp.text)

\* C15 (amended): send_request returns Ok exactly when the status is 2xx;
\* for every other status it returns a failure, which carries the numeric
\* status and the body text when the body could be read and is the error
\* of reading the body otherwise.
C15_StatusDecidesResult ==
    Answered =>
        /\ s_result.ok <=> s_resp.status \in 200..299
        /\ s_result.ok => s_result.status = s_resp.status
        /\ s_resp.status \notin 200..299 =>
              IF s_resp.readable
              THEN s_result = SendErr("HttpFailWithBody", s_resp.status, s_resp.text)
              ELSE s_result = SendErr("Reqwest", 0, "")

C15_Witness ==
    /\ Answered
    /\ s_resp.status = 404
    /\ s_resp.readable
    /\ s_result = SendErr("HttpFailWithBody", 404, "<Error/>")

\* a request has been built and handed to the client
Built == s_pc # "call" /\ s_sent = 1

\* C16: what is signed is exactly the headers present before Authorization
\* and Date are inserted; Date is never in the signed-header set; host,
\* x-amz-date and x-amz-content-sha256 always are.
C16_DateNotSigned ==
    Built =>
        /\ s_req.signed.signed_headers = DOMAIN s_req.signed.canonical_headers
        /\ s_req.signed.signed_headers =
              DOMAIN s_req.headers \ {"authorization", "date"}
        /\ "date" \notin s_req.signed.signed_headers
        /\ {"host", "x-amz-date", "x-amz-content-sha256"}
              \subseteq s_req.signed.signed_headers

Tasks == 1..NumTasks

\* where a task stands: at "get" it calls get_client, at "init" it runs
\* the closure of get_or_init, at "blocked" it waits for another task's
\* closure, at "send" it holds the &Client and sends; `left` counts the
\* requests it still has to send, `raced` tells that it once had to wait
At(t, at) == c_pc[t].at = at

Goto(t, at, left, raced) ==
    c_pc' = [c_pc EXCEPT ![t] = [at |-> at, left |-> left, raced |-> raced]]

ClientInit ==
    /\ PutIdle
    /\ SignIdle
    /\ ListIdle
    /\ SendIdle
    /\ DebugIdle
    /\ QueryIdle
    /\ c_pc \in [Tasks -> {[at |-> "get", left |-> n, raced |-> FALSE] :
                            n \in 1..MaxSends}]
    /\ c_client = 0
    /\ c_init = 0
    /\ c_built = 0
    /\ c_ref = [t \in Tasks |-> 0]
    /\ c_used = <<>>

\* OnceLock::get_or_init on an initialised cell: the value is returned
GetClientFast(t) ==
    /\ c_pc[t].at \in {"get", "blocked"}
    /\ c_client # 0
    /\ c_ref' = [c_ref EXCEPT ![t] = c_client]
    /\ Goto(t, "send", c_pc[t].left, c_pc[t].raced)
    /\ UNCHANGED <<c_client, c_init, c_built, c_used>>
    /\ UNCHANGED outsideClient

\* mutant: the cell does not exclude a second initialiser
GetClientBegin_NoLock(t) ==
    /\ At(t, "get")
    /\ c_client = 0
    /\ c_init' = t
    /\ Goto(t, "init", c_pc[t].left, c_pc[t].raced)
    /\ UNCHANGED <<c_client, c_built, c_ref, c_used>>
    /\ UNCHANGED outsideClient

\* bucket.rs:668: get_or_init on an empty cell that nobody initialises:
\* this task is the one that runs the closure
GetClientBegin(t) ==
    /\ At(t, "get")
    /\ c_client = 0
    /\ c_init = 0
    /\ c_init' = t
    /\ Goto(t, "init", c_pc[t].left, c_pc[t].raced)
    /\ UNCHANGED <<c_client, c_built, c_ref, c_used>>
    /\ UNCHANGED outsideClient

\* get_or_init on an empty cell whose closure another task is running:
\* the caller waits until the cell is set
GetClientWait(t) ==
    /\ At(t, "get")
    /\ c_client = 0
    /\ c_init \notin {0, t}
    /\ Goto(t, "blocked", c_pc[t].left, TRUE)
    /\ UNCHANGED <<c_client, c_init, c_built, c_ref, c_used>>
    /\ UNCHANGED outsideClient

\* bucket.rs:669-678: the closure builds the client, the cell keeps it
GetClientFinish(t) ==
    /\ At(t, "init")
    /\ c_built' = c_built + 1
    /\ c_client' = IF c_client = 0 THEN c_built + 1 ELSE c_client
    /\ c_ref' = [c_ref EXCEPT ![t] = c_client']
    /\ c_init' = 0
    /\ Goto(t, "send", c_pc[t].left, c_pc[t].raced)
    /\ UNCHANGED c_used
    /\ UNCHANGED outsideClient

\* bucket.rs:640-655: the request goes out through the client obtained
ClientSend(t) ==
    /\ At(t, "send")
    /\ c_used' = Append(c_used, [task |-> t, client |-> c_ref[t]])
    /\ Goto(t, IF c_pc[t].left = 1 THEN "done" ELSE "get",
            c_pc[t].left - 1, c_pc[t].raced)
    /\ UNCHANGED <<c_client, c_init, c_built, c_ref>>
    /\ UNCHANGED outsideClient

ClientNext ==
    \E t \in Tasks :
        \/ GetClientFast(t)
        \/ GetClientBegin(t)
        \/ GetClientWait(t)
        \/ GetClientFinish(t)
        \/ ClientSend(t)

ClientSpec == ClientInit /\ [][ClientNext]_vars

\* C14: under any interleaving the client is constructed at most once and
\* every request of every operation is sent through that instance.
C14_OneClient ==
    /\ c_built <= 1
    /\ \A i \in 1..Len(c_used) :
          /\ c_used[i].client # 0
          /\ c_used[i].client = c_client
    /\ \A i, j \in 1..Len(c_used) : c_used[i].client = c_used[j].client

C14_Witness ==
    /\ c_built = 1
    /\ \E i, j \in 1..Len(c_used) :
          /\ c_used[i].task # c_used[j].task
          /\ c_pc[c_used[j].task].raced
          /\ c_used[i].client = c_used[j].client


\* ====================================================================
\* Debug of AccessKeySecret, Credentials and Bucket
\* (src/src/credentials.rs:7-47; src/src/bucket.rs:48-56)
\* ====================================================================
\* a rendering is a sequence of tokens: literal text of the format, a
\* string rendered by its own Debug (quoted), or a bool
Lit(text) == <<[kind |-> "lit", val |-> text]>>
DebugString(str) == <<[kind |-> "str", val |-> str]>>
DebugBool(b) == <<[kind |-> "bool", val |-> b]>>

\* credentials.rs:7-8: derived Debug of the tuple struct
DebugAccessKeyId(id) == Lit("AccessKeyId(") \o DebugString(id) \o Lit(")")

\* mutant: Debug derived for the secret as it is for the id
DebugAccessKeySecret_Derived(secret) ==
    Lit("AccessKeySecret(") \o DebugString(secret) \o Lit(")")

\* credentials.rs:25-29: the hand-written Debug
DebugAccessKeySecret(secret) == Lit("AccessKeySecret(<hidden>)")

\* credentials.rs:43-47: derived Debug of Credentials
DebugCredentials(c) ==
    Lit("Credentials { access_key_id: ") \o DebugAccessKeyId(c.access_key_id)
    \o Lit(", access_key_secret: ") \o DebugAccessKeySecret(c.access_key_secret)
    \o Lit(" }")

\* bucket.rs:48-56: derived Debug of Bucket
DebugBucket(b) ==
    Lit("Bucket { host: ") \o DebugString(b.host)
    \o Lit(", name: ") \o DebugString(b.name)
    \o Lit(", region: Region(") \o DebugString(b.region)
    \o Lit("), credentials: ") \o DebugCredentials(b.credentials)
    \o Lit(", path_style: ") \o DebugBool(b.path_style)
    \o Lit(", list_objects_v2: ") \o DebugBool(b.list_objects_v2)
    \o Lit(" }")

Buckets ==
    {[host |-> <<1>>, name |-> n, region |-> <<1>>,
      credentials |-> [access_key_id |-> i, access_key_secret |-> x],
      path_style |-> ps, list_objects_v2 |-> TRUE] :
        n \in {<<>>, <<1>>}, i \in Strs, x \in Strs, ps \in BOOLEAN}

\* b with another secret
WithSecret(b, secret) ==
    [b EXCEPT !.credentials.access_key_secret = secret]

\* two buckets that differ at most in the access-key secret
DebugInit ==
    /\ PutIdle
    /\ SignIdle
    /\ ListIdle
    /\ SendIdle
    /\ ClientIdle
    /\ QueryIdle
    /\ \E b \in Buckets, secret \in Strs : d_in = <<b, WithSecret(b, secret)>>
    /\ d_pc = "call"
    /\ d_out = <<>>

\* format!("{:?}", bucket.credentials.access_key_secret) of both
FmtSecret ==
    /\ d_pc = "call"
    /\ d_out' = [i \in 1..2 |->
                   DebugAccessKeySecret(d_in[i].credentials.access_key_secret)]
    /\ d_pc' = "secret"
    /\ UNCHANGED d_in
    /\ UNCHANGED outsideDebug

\* format!("{:?}", bucket.credentials) of both
FmtCredentials ==
    /\ d_pc = "call"
    /\ d_out' = [i \in 1..2 |-> DebugCredentials(d_in[i].credentials)]
    /\ d_pc' = "credentials"
    /\ UNCHANGED d_in
    /\ UNCHANGED outsideDebug

\* format!("{:?}", bucket) of both
FmtBucket ==
    /\ d_pc = "call"
    /\ d_out' = [i \in 1..2 |-> DebugBucket(d_in[i])]
    /\ d_pc' = "bucket"
    /\ UNCHANGED d_in
    /\ UNCHANGED outsideDebug

DebugNext ==
    \/ FmtSecret
    \/ FmtCredentials
    \/ FmtBucket

DebugSpec == DebugInit /\ [][DebugNext]_vars

\* C19: two values that differ only in the access-key secret have the same
\* Debug rendering, as AccessKeySecret, as Credentials and as Bucket.
C19_DebugHidesSecret ==
    d_pc \in {"secret", "credentials", "bucket"} => d_out[1] = d_out[2]

C19_Witness ==
    /\ d_pc = "bucket"
    /\ d_in[1].credentials.access_key_secret
          # d_in[2].credentials.access_key_secret
    /\ d_in[1].credentials.access_key_id # <<>>
    /\ d_out[1] = d_out[2]


\* ====================================================================
\* signature::canonical_query_string (src/src/signature.rs:17-50, 80-97)
\* ====================================================================
\* strings are sequences of byte values; the bytes that occur in keys and
\* values: '%', '&', '=' and 'a'
QChars == {37, 38, 61, 97}
QStrs == UNION {[1..n -> QChars] : n \in 0..QMaxLen}
QPairs == QStrs \X QStrs
QSeqs == UNION {[1..n -> QPairs] : n \in 0..MaxPairs}

\* the orderings of n pairs
Perms(n) == {f \in [1..n -> 1..n] : \A i, j \in 1..n : f[i] = f[j] => i = j}
Permute(seq, f) == [i \in 1..Len(seq) |-> seq[f[i]]]

\* signature.rs:17-50: the bytes utf8_percent_encode escapes under
\* FRAGMENT_SLASH (CONTROLS, the bytes added, and every non-ASCII byte)
FRAGMENT_SLASH ==
    (0..31) \cup {127} \cup (128..255)
    \cup {58, 63, 35, 91, 93, 64, 33, 36, 38, 39, 40, 41, 42, 43, 44, 59, 61}
    \cup {34, 32, 60, 62, 37, 123, 125, 124, 92, 94, 96}
    \cup {47}

\* an upper-case hexadecimal digit as a byte
Hex(n) == IF n < 10 THEN 48 + n ELSE 55 + n

RECURSIVE PercentEncode(_)
\* utf8_percent_encode(str, FRAGMENT_SLASH)
PercentEncode(str) ==
    IF str = <<>> THEN <<>>
    ELSE (IF Head(str) \in FRAGMENT_SLASH
          THEN <<37, Hex(Head(str) \div 16), Hex(Head(str) % 16)>>
          ELSE <<Head(str)>>) \o PercentEncode(Tail(str))

\* mutant: pairs are ordered by their keys only
PairLess_KeyOnly(p, q) == StrLess(p[1], q[1])

\* Ord of (String, String): by key, then by value
PairLess(p, q) ==
    \/ StrLess(p[1], q[1])
    \/ p[1] = q[1] /\ StrLess(p[2], q[2])

RECURSIVE InsertPair(_, _)
\* seq is sorted: p goes behind the pairs that are not greater than it
InsertPair(seq, p) ==
    IF seq = <<>> THEN <<p>>
    ELSE IF PairLess(p, Head(seq)) THEN <<p>> \o seq
    ELSE <<Head(seq)>> \o InsertPair(Tail(seq), p)

RECURSIVE SortPairs(_)
\* signature.rs:85: keyvalues.sort(), a stable sort
SortPairs(seq) ==
    IF seq = <<>> THEN <<>>
    ELSE InsertPair(SortPairs(SubSeq(seq, 1, Len(seq) - 1)), seq[Len(seq)])

\* signature.rs:89-93: format!("{}={}", encode(k), encode(v))
FormatPair(p) == PercentEncode(p[1]) \o <<61>> \o PercentEncode(p[2])

RECURSIVE JoinPairs(_)
\* signature.rs:86-96: the formatted pairs joined with "&"
JoinPairs(seq) ==
    IF seq = <<>> THEN <<>>
    ELSE IF Len(seq) = 1 THEN FormatPair(seq[1])
    ELSE FormatPair(Head(seq)) \o <<38>> \o JoinPairs(Tail(seq))

\* signature.rs:80-97 on the pairs that uri.query_pairs() yields
CanonicalQueryString(pairs) == JoinPairs(SortPairs(pairs))

\* the value of a hexadecimal digit, -1 for another byte
HexVal(b) ==
    IF b \in 48..57 THEN b - 48
    ELSE IF b \in 65..70 THEN b - 55
    ELSE IF b \in 97..102 THEN b - 87
    ELSE -1

RECURSIVE PercentDecode(_)
\* the decoding query_pairs applies to a key or value: '+' is a space,
\* %XY is the byte XY
PercentDecode(str) ==
    IF str = <<>> THEN <<>>
    ELSE IF /\ Head(str) = 37
            /\ Len(str) >= 3
            /\ HexVal(str[2]) >= 0
            /\ HexVal(str[3]) >= 0
         THEN <<16 * HexVal(str[2]) + HexVal(str[3])>>
              \o PercentDecode(SubSeq(str, 4, Len(str)))
    ELSE <<IF Head(str) = 43 THEN 32 ELSE Head(str)>>
         \o PercentDecode(Tail(str))

\* the first position of byte b in str, Len(str) + 1 when there is none
FirstOf(str, b) ==
    IF \E i \in 1..Len(str) : str[i] = b
    THEN CHOOSE i \in 1..Len(str) :
            str[i] = b /\ \A j \in 1..(i - 1) : str[j] # b
    ELSE Len(str) + 1

\* a segment name=value (or name alone) as a decoded pair
ParsePair(seg) ==
    LET eq == FirstOf(seg, 61)
    IN  <<PercentDecode(SubSeq(seg, 1, eq - 1)),
          PercentDecode(SubSeq(seg, eq + 1, Len(seg)))>>

RECURSIVE QueryPairs(_)
\* signature.rs:81-84: uri.query_pairs() of a query string: the segments
\* between '&', empty ones skipped
QueryPairs(query) ==
    IF query = <<>> THEN <<>>
    ELSE LET amp == FirstOf(query, 38)
             seg == SubSeq(query, 1, amp - 1)
             rest == SubSeq(query, amp + 1, Len(query))
         IN  (IF seg = <<>> THEN <<>> ELSE <<ParsePair(seg)>>)
             \o QueryPairs(rest)

\* the same pairs in two orderings
QueryInit ==
    /\ PutIdle
    /\ SignIdle
    /\ ListIdle
    /\ SendIdle
    /\ ClientIdle
    /\ DebugIdle
    /\ \E pairs \in QSeqs : \E f \in Perms(Len(pairs)) :
          q_in = <<pairs, Permute(pairs, f)>>
    /\ q_pc = "call"
    /\ q_out = [first |-> <<>>, again |-> <<>>]

\* canonical_query_string of both orderings
Canonicalize ==
    /\ q_pc = "call"
    /\ q_out' = [q_out EXCEPT
                   !.first = [i \in 1..2 |-> CanonicalQueryString(q_in[i])]]
    /\ q_pc' = "done"
    /\ UNCHANGED q_in
    /\ UNCHANGED outsideQuery

\* canonical_query_string of a URL whose query is the canonical string
Recanonicalize ==
    /\ q_pc = "done"
    /\ q_out' = [q_out EXCEPT
                   !.again = [i \in 1..2 |->
                       CanonicalQueryString(QueryPairs(q_out.first[i]))]]
    /\ q_pc' = "again"
    /\ UNCHANGED q_in
    /\ UNCHANGED outsideQuery

QueryNext ==
    \/ Canonicalize
    \/ Recanonicalize

QuerySpec == QueryInit /\ [][QueryNext]_vars

\* C20: every ordering of the same pairs gives the same canonical string;
\* it lists the pairs by key, then value; a pair with an empty value is
\* rendered "key="; no pairs give the empty string; canonicalizing the
\* canonical string changes nothing.
C20_OrderIndependent ==
    q_pc \in {"done", "again"} =>
        /\ q_out.first[1] = q_out.first[2]
        /\ \E f \in Perms(Len(q_in[1])) :
              LET sorted == Permute(q_in[1], f) IN
              /\ \A i, j \in 1..Len(sorted) : i < j =>
                    \/ StrLess(sorted[i][1], sorted[j][1])
                    \/ /\ sorted[i][1] = sorted[j][1]
                       /\ ~StrLess(sorted[j][2], sorted[i][2])
              /\ q_out.first[1] = JoinPairs(sorted)
        /\ q_in[1] = <<>> => q_out.first[1] = <<>>
        /\ \A k \in QStrs : q_in[1] = <<<<k, <<>>>>>> =>
              q_out.first[1] = PercentEncode(k) \o <<61>>
        /\ q_pc = "again" => q_out.again = q_out.first

C20_Witness ==
    /\ q_pc = "again"
    /\ Len(q_in[1]) = 2
    /\ q_in[1] # q_in[2]
    /\ q_in[1][1][1] = q_in[1][2][1]
    /\ q_in[1][1][2] = <<>>
    /\ q_out.first[1] = q_out.first[2]
    /\ q_out.again[1] = q_out.first[1]


\* ====================================================================
\* further properties of Bucket::put_stream_with (specification Spec)
\* ====================================================================
\* what one step may do to the reader loop and the channel
ReaderLoopStep ==
    \* a message enters the channel: it is the buffer just read, the
    \* receiver is there and the channel had room
    /\ Len(chan') > Len(chan) =>
          /\ rpc = "send"
          /\ rxAlive
          /\ Len(chan) < ChanCap
          /\ chan' = Append(chan, buf)
          /\ IF buf.some
             THEN /\ buf.data # <<>>
                  /\ buf.data = SubSeq(stream, pos - Len(buf.data) + 1, pos)
                  /\ rpc' = "alloc"
             ELSE /\ pos = Len(stream)
                  /\ rpc' = "join"
    \* every successful read is handed to send: the bytes read, or the
    \* sentinel when there were none
    /\ (rpc = "read" /\ reads' > reads /\ readErr' = readErr) =>
          /\ rpc' = "send"
          /\ buf' = IF NextChunk(stream, pos) = <<>>
                    THEN None ELSE Some(NextChunk(stream, pos))
    \* a full channel blocks the reader
    /\ (rpc = "send" /\ rxAlive /\ Len(chan) >= ChanCap) =>
          /\ rpc' \in {"send", "cancelled"}
          /\ reads' = reads
    \* the receiver is gone: the loop is left, no error is raised
    /\ (rpc = "send" /\ ~rxAlive /\ rpc' \notin {"send", "cancelled"}) =>
          /\ rpc' = "join"
          /\ result' = result
          /\ chan' = chan
    \* after the loop nothing is read or sent, and the result is the
    \* writer task's
    /\ rpc = "join" =>
          /\ reads' = reads
          /\ Len(chan') <= Len(chan)
          /\ rpc' \in {"join", "returned", "cancelled"}
          /\ rpc' = "returned" => result' = wres

\* C22: the reader loop sends every non-empty chunk it reads in read order,
\* blocks while the channel is full, sends one sentinel after a read of
\* zero bytes and stops reading; when the receiver is gone it stops
\* reading without an error of its own, and the call returns the writer
\* task's result.
C22_ReaderLoop == [][ReaderLoopStep]_vars

C22_Witness ==
    /\ rpc = "join"
    /\ Len(chan) = ChanCap
    /\ chan[1].some
    /\ ~chan[2].some
    /\ reads = 3

\* the UploadPart requests answered 2xx without an ETag header
NoETagParts == {i \in ReqIdx("UploadPart") : requests[i].st = "noetag"}

\* C23: an UploadPart response that is 2xx but has no ETag header fails
\* the upload with the missing-ETag error, not with an HTTP failure; no
\* further UploadPart and no CompleteMultipartUpload is issued.
C23_MissingETagFails ==
    \A i \in NoETagParts :
        /\ wpc = "done"
        /\ wres = Err(Error("UnexpectedResponse", i))
        /\ rpc = "returned" => result = Err(Error("UnexpectedResponse", i))
        /\ \A j \in DOMAIN requests :
              j > i => requests[j].cmd \notin {"UploadPart",
                                               "CompleteMultipartUpload"}

C23_Witness ==
    /\ rpc = "returned"
    /\ \E i \in NoETagParts : requests[i].part = 2
    /\ result.err.kind = "UnexpectedResponse"

\* the AbortMultipartUpload requests that failed
FailedAborts ==
    {a \in ReqIdx("AbortMultipartUpload") : requests[a].st = "fail"}

\* C24: when an UploadPart request failed and the AbortMultipartUpload
\* request failed too, put_stream_with returns the abort's failure, not
\* the failure of the UploadPart request.
C24_AbortFailureWins ==
    (rpc = "returned" /\ FailedParts # {}) =>
        \A a \in FailedAborts :
            /\ result = Err(Error("HttpFailWithBody", a))
            /\ \A i \in FailedParts : result.err.req # i

C24_Witness ==
    /\ rpc = "returned"
    /\ FailedParts # {}
    /\ FailedAborts # {}
    /\ result.err.req \in FailedAborts

\* C25: once the multipart path is taken, and as long as no read of the
\* source fails, put_stream_with returns (unless the caller drops it),
\* whichever request fails and at whatever point.
C25_MultipartReturns ==
    (wpc = "start") ~> (rpc \in {"returned", "cancelled"} \/ readErr # 0)

C25_Witness ==
    /\ rpc = "returned"
    /\ readErr = 0
    /\ ~result.ok
    /\ Len(stream) > 2 * CHUNK_SIZE
    /\ \E i \in ReqIdx("InitiateMultipartUpload") : requests[i].st = "fail"

\* C26 (as claimed): CompleteMultipartUpload is issued only when the parts
\* uploaded cover the whole source stream; a channel that closes without
\* a sentinel never leads to a CompleteMultipartUpload of a truncated
\* object.
C26_CompleteOnlyWhenWhole ==
    ReqIdx("CompleteMultipartUpload") # {} =>
        ConcatBodies(ReqSeq("UploadPart")) = stream

FailedInitiates ==
    {i \in ReqIdx("InitiateMultipartUpload") :
        requests[i].st \in {"fail", "badxml"}}

\* C28: when InitiateMultipartUpload fails, no UploadPart, Complete or
\* Abort request is issued, the reader's sends fail so that it stops, and
\* put_stream_with returns the initiate failure.
C28_InitiateFailureEnds ==
    \A i \in FailedInitiates :
        LET e == Err(Error(IF requests[i].st = "fail"
                           THEN "HttpFailWithBody" ELSE "Xml", i))
        IN  /\ Len(requests) = i
            /\ wpc = "done"
            /\ wres = e
            /\ ~rxAlive
            /\ rpc \in {"alloc", "read", "send", "join", "returned",
                        "cancelled"}
            /\ rpc = "returned" => result = e

C28_Witness ==
    /\ rpc = "returned"
    /\ \E i \in FailedInitiates : requests[i].st = "badxml"
    /\ reads >= 3
    /\ result.err.kind = "Xml"

\* C29 (as claimed): the last page of every result Bucket::list returns
\* has is_truncated = false.
C29_LastPageNotTruncated ==
    (l_op = "list" /\ l_pc = "done" /\ l_result.ok) =>
        /\ l_result.pages # <<>>
        /\ ~l_result.pages[Len(l_result.pages)].is_truncated

\* the CompleteMultipartUpload requests that failed
FailedCompletes ==
    {c \in ReqIdx("CompleteMultipartUpload") : requests[c].st = "fail"}

\* C30: when CompleteMultipartUpload fails, put_stream_with returns that
\* failure, reports no uploaded_bytes, and no AbortMultipartUpload or any
\* other request follows.
C30_CompleteFailureReturned ==
    \A c \in FailedCompletes :
        /\ Len(requests) = c
        /\ wpc = "done"
        /\ wres = Err(Error("HttpFailWithBody", c))
        /\ rpc = "returned" =>
              /\ result = Err(Error("HttpFailWithBody", c))
              /\ ~result.ok
              /\ result.uploaded_bytes = 0

C30_Witness ==
    /\ rpc = "returned"
    /\ FailedCompletes # {}
    /\ Len(ReqSeq("UploadPart")) >= 2
    /\ \A k \in DOMAIN ReqSeq("UploadPart") : ReqSeq("UploadPart")[k].st = "ok"
    /\ ~result.ok


\* ====================================================================
\* signature::signing_key, signature::string_to_sign and the signature
\* (src/src/signature.rs:125-171, src/src/bucket.rs:812-820), down to the
\* rounds of SHA-256 (FIPS 180-4) and the two hashes of HMAC (RFC 2104)
\* that the sha2 and hmac crates compute
\* ====================================================================
\* a 32-bit word is the pair of its 16-bit halves, the high half first
WordOf(hi, lo) == <<hi, lo>>

Hi16(w) == w[1]
Lo16(w) == w[2]

\* addition modulo 2^32
Add(a, b) ==
    LET lo == Lo16(a) + Lo16(b)
        hi == Hi16(a) + Hi16(b) + (lo \div 65536)
    IN  WordOf(hi % 65536, lo % 65536)

RECURSIVE XorBits(_, _, _)
\* the exclusive or of two numbers of n bits
XorBits(a, b, n) ==
    IF n = 0 THEN 0
    ELSE ((a + b) % 2) + (2 * XorBits(a \div 2, b \div 2, n - 1))

RECURSIVE AndBits(_, _, _)
\* the bitwise and of two numbers of n bits
AndBits(a, b, n) ==
    IF n = 0 THEN 0
    ELSE ((a % 2) * (b % 2)) + (2 * AndBits(a \div 2, b \div 2, n - 1))

Xor(a, b) ==
    WordOf(XorBits(Hi16(a), Hi16(b), 16), XorBits(Lo16(a), Lo16(b), 16))
And(a, b) ==
    WordOf(AndBits(Hi16(a), Hi16(b), 16), AndBits(Lo16(a), Lo16(b), 16))
Not(a) == WordOf(65535 - Hi16(a), 65535 - Lo16(a))

\* the low n bits of `from` on top of the high 16 - n bits of `into`
ShiftIn(from, into, n) == ((from % (2^n)) * (2^(16 - n))) + (into \div (2^n))

RotR(a, n) ==
    IF n < 16
    THEN WordOf(ShiftIn(Lo16(a), Hi16(a), n), ShiftIn(Hi16(a), Lo16(a), n))
    ELSE WordOf(ShiftIn(Hi16(a), Lo16(a), n - 16),
                ShiftIn(Lo16(a), Hi16(a), n - 16))
\* used with n < 16 only
ShR(a, n) == WordOf(Hi16(a) \div (2^n), ShiftIn(Hi16(a), Lo16(a), n))

Ch(x, y, z) == Xor(And(x, y), And(Not(x), z))
Maj(x, y, z) == Xor(Xor(And(x, y), And(x, z)), And(y, z))
BigSigma0(x) == Xor(Xor(RotR(x, 2), RotR(x, 13)), RotR(x, 22))
BigSigma1(x) == Xor(Xor(RotR(x, 6), RotR(x, 11)), RotR(x, 25))
SmallSigma0(x) == Xor(Xor(RotR(x, 7), RotR(x, 18)), ShR(x, 3))
SmallSigma1(x) == Xor(Xor(RotR(x, 17), RotR(x, 19)), ShR(x, 10))

\* the 64 round constants of SHA-256 (FIPS 180-4, 4.2.2)
SHA256_K ==
    <<WordOf(17034, 12184), WordOf(28983, 17553), WordOf(46528, 64463),
      WordOf(59829, 56229), WordOf(14678, 49755), WordOf(23025, 4593),
      WordOf(37439, 33444), WordOf(43804, 24277), WordOf(55303, 43672),
      WordOf(4739, 23297), WordOf(9265, 34238), WordOf(21772, 32195),
      WordOf(29374, 23924), WordOf(32990, 45566), WordOf(39900, 1703),
      WordOf(49563, 61812), WordOf(58523, 27073), WordOf(61374, 18310),
      WordOf(4033, 40390), WordOf(9228, 41420), WordOf(11753, 11375),
      WordOf(19060, 33962), WordOf(23728, 43484), WordOf(30457, 35034),
      WordOf(38974, 20818), WordOf(43057, 50797), WordOf(45059, 10184),
      WordOf(48985, 32711), WordOf(50912, 3059), WordOf(54695, 37191),
      WordOf(1738, 25425), WordOf(5161, 10599), WordOf(10167, 2693),
      WordOf(11803, 8504), WordOf(19756, 28156), WordOf(21304, 3347),
      WordOf(25866, 29524), WordOf(30314, 2747), WordOf(33218, 51502),
      WordOf(37490, 11397), WordOf(41663, 59553), WordOf(43034, 26187),
      WordOf(49739, 35696), WordOf(51052, 20899), WordOf(53650, 59417),
      WordOf(54937, 1572), WordOf(62478, 13701), WordOf(4202, 41072),
      WordOf(6564, 49430), WordOf(7735, 27656), WordOf(10056, 30540),
      WordOf(13488, 48309), WordOf(14620, 3251), WordOf(20184, 43594),
      WordOf(23452, 51791), WordOf(26670, 28659), WordOf(29839, 33518),
      WordOf(30885, 25455), WordOf(33992, 30740), WordOf(36039, 520),
      WordOf(37054, 65530), WordOf(42064, 27883), WordOf(48889, 41975),
      WordOf(50801, 30962)>>

\* the initial hash value of SHA-256 (FIPS 180-4, 5.3.3)
SHA256_H0 ==
    <<WordOf(27145, 58983), WordOf(47975, 44677), WordOf(15470, 62322),
      WordOf(42319, 62778), WordOf(20750, 21119), WordOf(39685, 26764),
      WordOf(8067, 55723), WordOf(23520, 52505)>>

\* bytes are numbers in 0..255
WordOfBytes(b1, b2, b3, b4) == WordOf(256 * b1 + b2, 256 * b3 + b4)
BytesOfWord(w) ==
    <<Hi16(w) \div 256, Hi16(w) % 256, Lo16(w) \div 256, Lo16(w) % 256>>

Zeros(n) == [i \in 1..n |-> 0]

\* the padding of FIPS 180-4, 5.1.1: 0x80, zero bytes up to 56 modulo 64,
\* and the length of the message in bits as 8 bytes
Pad(msg) ==
    LET bits == 8 * Len(msg)
    IN  msg \o <<128>> \o Zeros((64 + 55 - (Len(msg) % 64)) % 64)
        \o <<0, 0, 0, 0, (bits \div 16777216) % 256, (bits \div 65536) % 256,
             (bits \div 256) % 256, bits % 256>>

\* the 64-byte blocks of a padded message, each as 16 words
Blocks(padded) ==
    [b \in 1..(Len(padded) \div 64) |->
        [j \in 1..16 |->
            LET at == 64 * (b - 1) + 4 * (j - 1)
            IN  WordOfBytes(padded[at + 1], padded[at + 2],
                            padded[at + 3], padded[at + 4])]]

\* the 32 bytes of a hash value
Digest(H) ==
    [i \in 1..32 |-> BytesOfWord(H[((i - 1) \div 4) + 1])[((i - 1) % 4) + 1]]

\* a SHA-256 computation that has consumed nothing yet
ShaStart(msg) ==
    [blocks |-> Blocks(Pad(msg)), H |-> SHA256_H0, w |-> <<>>, v |-> <<>>,
     t |-> 0, loaded |-> FALSE]

\* one round of the compression function on the working variables v, with
\* the constant k and the schedule word w
ShaRound(v, k, w) ==
    LET T1 == Add(Add(Add(Add(v[8], BigSigma1(v[5])), Ch(v[5], v[6], v[7])),
                      k), w)
        T2 == Add(BigSigma0(v[1]), Maj(v[1], v[2], v[3]))
    IN  <<Add(T1, T2), v[1], v[2], v[3], Add(v[4], T1), v[5], v[6], v[7]>>

\* the schedule slides by one word: w holds W[t] .. W[t + 15]
NextSchedule(w) ==
    Tail(w) \o <<Add(Add(Add(SmallSigma1(w[15]), w[10]), SmallSigma0(w[2])),
                     w[1])>>

\* the key of an HMAC, filled up to the block size and xored with a pad
\* byte; the keys of this chain are shorter than a block
XorPad(key, pad) ==
    [i \in 1..64 |-> XorBits(IF i <= Len(key) THEN key[i] ELSE 0, pad, 8)]

IPAD == 54
OPAD == 92

\* hex::encode
HexLower(n) == IF n < 10 THEN 48 + n ELSE 87 + n
HexEncode(bytes) ==
    [i \in 1..(2 * Len(bytes)) |->
        IF i % 2 = 1 THEN HexLower(bytes[(i + 1) \div 2] \div 16)
                     ELSE HexLower(bytes[i \div 2] % 16)]

\* a number as `width` decimal digits
Digits(n, width) ==
    [i \in 1..width |-> 48 + ((n \div 10^(width - i)) % 10)]

\* signature.rs:15-16: SHORT_DATE, "[year][month][day]"
FormatShortDate(d) == Digits(d.year, 4) \o Digits(d.month, 2) \o Digits(d.day, 2)

\* constants.rs:1-2: LONG_DATE_TIME,
\* "[year][month][day]T[hour][minute][second]Z"
FormatLongDate(d) ==
    FormatShortDate(d) \o <<84>> \o Digits(d.hour, 2) \o Digits(d.minute, 2)
    \o Digits(d.second, 2) \o <<90>>

\* signature.rs:155: b"AWS4"
AWS4 ==
    <<65, 87, 83, 52>>

\* signature.rs:165: b"s3"
SERVICE ==
    <<115, 51>>

\* signature.rs:168: b"aws4_request"
AWS4_REQUEST ==
    <<97, 119, 115, 52, 95, 114, 101, 113, 117, 101, 115, 116>>

\* signature.rs:141: "AWS4-HMAC-SHA256"
ALGORITHM ==
    <<65, 87, 83, 52, 45, 72, 77, 65, 67, 45, 83, 72, 65, 50, 53, 54>>

\* signature.rs:127: "/s3/aws4_request" of the scope string
SCOPE_SUFFIX ==
    <<47, 115, 51, 47, 97, 119, 115, 52, 95, 114, 101, 113, 117, 101, 115,
      116>>

\* signature.rs:125-131: "{date}/{region}/s3/aws4_request"
ScopeString(d, region) ==
    FormatShortDate(d) \o <<47>> \o region \o SCOPE_SUFFIX

\* signature.rs:133-147, given the hash of the canonical request
StringToSign(d, region, canonical_hash) ==
    ALGORITHM \o <<10>> \o FormatLongDate(d) \o <<10>>
    \o ScopeString(d, region) \o <<10>> \o HexEncode(canonical_hash)

\* mutant: the secret is used as the first key as it is
SigningSecret_NoPrefix(secret) == secret

\* signature.rs:154-156: b"AWS4" followed by the secret
SigningSecret(secret) == AWS4 \o secret


\* signature.rs:355, 406: Region("us-east-1")
UsEast1 ==
    <<117, 115, 45, 101, 97, 115, 116, 45, 49>>

\* signature.rs:348: "wJalrXUtnFEMI/K7MDENG+bPxRfiCYEXAMPLEKEY"
SecretPlus ==
    <<119, 74, 97, 108, 114, 88, 85, 116, 110, 70, 69, 77, 73, 47, 75, 55,
      77, 68, 69, 78, 71, 43, 98, 80, 120, 82, 102, 105, 67, 89, 69, 88,
      65, 77, 80, 76, 69, 75, 69, 89>>

\* signature.rs:413: "wJalrXUtnFEMI/K7MDENG/bPxRfiCYEXAMPLEKEY"
SecretSlash ==
    <<119, 74, 97, 108, 114, 88, 85, 116, 110, 70, 69, 77, 73, 47, 75, 55,
      77, 68, 69, 78, 71, 47, 98, 80, 120, 82, 102, 105, 67, 89, 69, 88,
      65, 77, 80, 76, 69, 75, 69, 89>>

\* signature.rs:362-372: the canonical request of the GET example
EXPECTED_CANONICAL_REQUEST ==
    <<71, 69, 84, 10, 47, 116, 101, 115, 116, 46, 116, 120, 116, 10, 10,
      104, 111, 115, 116, 58, 101, 120, 97, 109, 112, 108, 101, 98, 117,
      99, 107, 101, 116, 46, 115, 51, 46, 97, 109, 97, 122, 111, 110, 97,
      119, 115, 46, 99, 111, 109, 10, 114, 97, 110, 103, 101, 58, 98, 121,
      116, 101, 115, 61, 48, 45, 57, 10, 120, 45, 97, 109, 122, 45, 99,
      111, 110, 116, 101, 110, 116, 45, 115, 104, 97, 50, 53, 54, 58, 101,
      51, 98, 48, 99, 52, 52, 50, 57, 56, 102, 99, 49, 99, 49, 52, 57, 97,
      102, 98, 102, 52, 99, 56, 57, 57, 54, 102, 98, 57, 50, 52, 50, 55,
      97, 101, 52, 49, 101, 52, 54, 52, 57, 98, 57, 51, 52, 99, 97, 52,
      57, 53, 57, 57, 49, 98, 55, 56, 53, 50, 98, 56, 53, 53, 10, 120, 45,
      97, 109, 122, 45, 100, 97, 116, 101, 58, 50, 48, 49, 51, 48, 53, 50,
      52, 84, 48, 48, 48, 48, 48, 48, 90, 10, 10, 104, 111, 115, 116, 59,
      114, 97, 110, 103, 101, 59, 120, 45, 97, 109, 122, 45, 99, 111, 110,
      116, 101, 110, 116, 45, 115, 104, 97, 50, 53, 54, 59, 120, 45, 97,
      109, 122, 45, 100, 97, 116, 101, 10, 101, 51, 98, 48, 99, 52, 52,
      50, 57, 56, 102, 99, 49, 99, 49, 52, 57, 97, 102, 98, 102, 52, 99,
      56, 57, 57, 54, 102, 98, 57, 50, 52, 50, 55, 97, 101, 52, 49, 101,
      52, 54, 52, 57, 98, 57, 51, 52, 99, 97, 52, 57, 53, 57, 57, 49, 98,
      55, 56, 53, 50, 98, 56, 53, 53>>

\* signature.rs:374-379: the string to sign of the GET example
EXPECTED_STRING_TO_SIGN ==
    <<65, 87, 83, 52, 45, 72, 77, 65, 67, 45, 83, 72, 65, 50, 53, 54, 10,
      50, 48, 49, 51, 48, 53, 50, 52, 84, 48, 48, 48, 48, 48, 48, 90, 10,
      50, 48, 49, 51, 48, 53, 50, 52, 47, 117, 115, 45, 101, 97, 115, 116,
      45, 49, 47, 115, 51, 47, 97, 119, 115, 52, 95, 114, 101, 113, 117,
      101, 115, 116, 10, 55, 51, 52, 52, 97, 101, 53, 98, 55, 101, 101,
      54, 99, 51, 101, 55, 101, 54, 98, 48, 102, 101, 48, 54, 52, 48, 52,
      49, 50, 97, 51, 55, 54, 50, 53, 100, 49, 102, 98, 102, 102, 102, 57,
      53, 99, 52, 56, 98, 98, 98, 50, 100, 99, 52, 51, 57, 54, 52, 57, 52,
      54, 57, 55, 50>>

\* signature.rs:349: "32f78051dcde24c552811d654f4a769112bb834b03975cdd6b1fd7d16248c269"
ExpectedSigningKey ==
    <<51, 50, 102, 55, 56, 48, 53, 49, 100, 99, 100, 101, 50, 52, 99, 53,
      53, 50, 56, 49, 49, 100, 54, 53, 52, 102, 52, 97, 55, 54, 57, 49,
      49, 50, 98, 98, 56, 51, 52, 98, 48, 51, 57, 55, 53, 99, 100, 100,
      54, 98, 49, 102, 100, 55, 100, 49, 54, 50, 52, 56, 99, 50, 54, 57>>

\* signature.rs:412: "f0e8bdb87c964420e857bd35b5d6ed310bd44f0170aba48dd91039c6036bdb41"
ExpectedSignature ==
    <<102, 48, 101, 56, 98, 100, 98, 56, 55, 99, 57, 54, 52, 52, 50, 48,
      101, 56, 53, 55, 98, 100, 51, 53, 98, 53, 100, 54, 101, 100, 51, 49,
      48, 98, 100, 52, 52, 102, 48, 49, 55, 48, 97, 98, 97, 52, 56, 100,
      100, 57, 49, 48, 51, 57, 99, 54, 48, 51, 54, 98, 100, 98, 52, 49>>

Date(year, month, day) ==
    [year |-> year, month |-> month, day |-> day,
     hour |-> 0, minute |-> 0, second |-> 0]

\* signature.rs:346-357 (tests::test_signing_key): only the key is derived;
\* signature.rs:381-418 (tests::test_signing): the string to sign is built
\* from the canonical request and signed
Vectors ==
    {[secret |-> SecretPlus, date |-> Date(2015, 8, 30), region |-> UsEast1,
      sign |-> FALSE, canonical |-> <<>>],
     [secret |-> SecretSlash, date |-> Date(2013, 5, 24), region |-> UsEast1,
      sign |-> TRUE, canonical |-> EXPECTED_CANONICAL_REQUEST]}

NoHmac == [key |-> <<>>, phase |-> "none"]
NoSha == [blocks |-> <<>>, H |-> <<>>, w |-> <<>>, v |-> <<>>, t |-> 0,
          loaded |-> FALSE]

SignInit ==
    /\ PutIdle
    /\ ListIdle
    /\ SendIdle
    /\ ClientIdle
    /\ DebugIdle
    /\ QueryIdle
    /\ k_in \in Vectors
    /\ k_pc = "call"
    /\ k_hmac = NoHmac
    /\ k_sha = NoSha
    /\ k_out = [string_to_sign |-> <<>>, signing_key |-> <<>>,
                signature |-> <<>>]

\* Hmac::new_from_slice(key) followed by update(msg): the inner hash
\* starts, over the key xored with ipad and the message
HmacStart(key, msg) ==
    /\ k_hmac' = [key |-> key, phase |-> "inner"]
    /\ k_sha' = ShaStart(XorPad(key, IPAD) \o msg)

\* the hash in progress has consumed all its blocks
ShaFinished == ~k_sha.loaded /\ k_sha.blocks = <<>>

\* signature.rs:138-139: string_to_sign hashes the canonical request
BeginCanonical ==
    /\ k_pc = "call"
    /\ k_in.sign
    /\ k_pc' = "canonical"
    /\ k_hmac' = [key |-> <<>>, phase |-> "plain"]
    /\ k_sha' = ShaStart(k_in.canonical)
    /\ UNCHANGED <<k_in, k_out>>
    /\ UNCHANGED outsideSign

\* signature.rs:140-146: the string to sign is formatted
CanonicalDone ==
    /\ k_pc = "canonical"
    /\ ShaFinished
    /\ k_out' = [k_out EXCEPT !.string_to_sign =
                    StringToSign(k_in.date, k_in.region, Digest(k_sha.H))]
    /\ k_pc' = "key"
    /\ k_hmac' = NoHmac
    /\ k_sha' = NoSha
    /\ UNCHANGED k_in
    /\ UNCHANGED outsideSign

\* signature.rs:154-159: signing_key starts with the HMAC of the date
\* under "AWS4" + secret
BeginSigningKey ==
    /\ \/ k_pc = "call" /\ ~k_in.sign
       \/ k_pc = "key"
    /\ k_pc' = "key_date"
    /\ HmacStart(SigningSecret(k_in.secret), FormatShortDate(k_in.date))
    /\ UNCHANGED <<k_in, k_out>>
    /\ UNCHANGED outsideSign

\* the next block of the message is loaded
LoadBlock ==
    /\ k_pc \notin {"call", "key", "done"}
    /\ ~k_sha.loaded
    /\ k_sha.blocks # <<>>
    /\ k_sha' = [k_sha EXCEPT !.blocks = Tail(k_sha.blocks),
                              !.w = Head(k_sha.blocks),
                              !.v = k_sha.H,
                              !.t = 0,
                              !.loaded = TRUE]
    /\ UNCHANGED <<k_in, k_pc, k_hmac, k_out>>
    /\ UNCHANGED outsideSign

\* one of the 64 rounds of the compression function
Round ==
    /\ k_sha.loaded
    /\ k_sha.t < 64
    /\ k_sha' = [k_sha EXCEPT
                    !.v = ShaRound(k_sha.v, SHA256_K[k_sha.t + 1], k_sha.w[1]),
                    !.w = NextSchedule(k_sha.w),
                    !.t = k_sha.t + 1]
    /\ UNCHANGED <<k_in, k_pc, k_hmac, k_out>>
    /\ UNCHANGED outsideSign

\* after the 64th round the working variables are added to the hash value
FinishBlock ==
    /\ k_sha.loaded
    /\ k_sha.t = 64
    /\ k_sha' = [k_sha EXCEPT
                    !.H = [i \in 1..8 |-> Add(k_sha.H[i], k_sha.v[i])],
                    !.w = <<>>,
                    !.v = <<>>,
                    !.t = 0,
                    !.loaded = FALSE]
    /\ UNCHANGED <<k_in, k_pc, k_hmac, k_out>>
    /\ UNCHANGED outsideSign

\* finalize(), first half: the inner hash is done, the outer hash starts,
\* over the key xored with opad and the inner digest
HmacInnerDone ==
    /\ k_hmac.phase = "inner"
    /\ ShaFinished
    /\ k_hmac' = [k_hmac EXCEPT !.phase = "outer"]
    /\ k_sha' = ShaStart(XorPad(k_hmac.key, OPAD) \o Digest(k_sha.H))
    /\ UNCHANGED <<k_in, k_pc, k_out>>
    /\ UNCHANGED outsideSign

\* signature.rs:161-168: the HMAC of one link is the key of the next:
\* region, then b"s3", then b"aws4_request"
KeyLinkDone ==
    /\ k_pc \in {"key_date", "key_region", "key_service"}
    /\ k_hmac.phase = "outer"
    /\ ShaFinished
    /\ \/ /\ k_pc = "key_date"
          /\ k_pc' = "key_region"
          /\ HmacStart(Digest(k_sha.H), k_in.region)
       \/ /\ k_pc = "key_region"
          /\ k_pc' = "key_service"
          /\ HmacStart(Digest(k_sha.H), SERVICE)
       \/ /\ k_pc = "key_service"
          /\ k_pc' = "key_signing"
          /\ HmacStart(Digest(k_sha.H), AWS4_REQUEST)
    /\ UNCHANGED <<k_in, k_out>>
    /\ UNCHANGED outsideSign

\* signature.rs:170: signing_key returns the last HMAC; test_signing_key
\* stops here
SigningKeyDone ==
    /\ k_pc = "key_signing"
    /\ k_hmac.phase = "outer"
    /\ ShaFinished
    /\ ~k_in.sign
    /\ k_out' = [k_out EXCEPT !.signing_key = Digest(k_sha.H)]
    /\ k_pc' = "done"
    /\ k_hmac' = NoHmac
    /\ k_sha' = NoSha
    /\ UNCHANGED k_in
    /\ UNCHANGED outsideSign

\* bucket.rs:818-819, signature.rs:414-416: the string to sign goes
\* through an HMAC under the signing key
BeginSignature ==
    /\ k_pc = "key_signing"
    /\ k_hmac.phase = "outer"
    /\ ShaFinished
    /\ k_in.sign
    /\ k_out' = [k_out EXCEPT !.signing_key = Digest(k_sha.H)]
    /\ k_pc' = "signature"
    /\ HmacStart(Digest(k_sha.H), k_out.string_to_sign)
    /\ UNCHANGED k_in
    /\ UNCHANGED outsideSign

\* bucket.rs:820, signature.rs:417: the signature is the HMAC in hex
SignatureDone ==
    /\ k_pc = "signature"
    /\ k_hmac.phase = "outer"
    /\ ShaFinished
    /\ k_out' = [k_out EXCEPT !.signature = HexEncode(Digest(k_sha.H))]
    /\ k_pc' = "done"
    /\ k_hmac' = NoHmac
    /\ k_sha' = NoSha
    /\ UNCHANGED k_in
    /\ UNCHANGED outsideSign

SignNext ==
    \/ BeginCanonical
    \/ CanonicalDone
    \/ BeginSigningKey
    \/ LoadBlock
    \/ Round
    \/ FinishBlock
    \/ HmacInnerDone
    \/ KeyLinkDone
    \/ SigningKeyDone
    \/ BeginSignature
    \/ SignatureDone

SignSpec == SignInit /\ [][SignNext]_vars

====
